---- MODULE Spec2Model ----
(***************************************************************************)
(* MatchX order book (me_lib): the order pool with its free list, the      *)
(* intrusive FIFO of every price level, the Order record and the OrderBook *)
(* operations, written as operators on a record `b' that holds the fields  *)
(* of one OrderBook.  An Order* is the index of a pool slot; a slot keeps  *)
(* its bytes after destroy_order, except that the free-list link overlays  *)
(* the `next' field (union FreeNode), so a pointer that outlives its order *)
(* reads what the program would read.                                      *)
(*                                                                         *)
(* uint32 fields that the code decrements without a check (level volumes,  *)
(* list size) are held as integers congruent modulo 2^32: a negative       *)
(* integer v stands for 2^32 + v.                                          *)
(***************************************************************************)
EXTENDS Integers, Sequences, FiniteSets, TLC

\* ------------------------------------------------------------------ bounds
MaxOid == 4
MaxPrice == 3
MaxQty == 2
MaxTime == 1
NumSlots == 4
MaxCalls == 3
ReuseCalls == 4
DeepCalls == 5
LoopFuel == 12
TwiceCalls == 6

Oids == 1..MaxOid
Prices == 1..MaxPrice
Qtys == 1..MaxQty
Times == 0..MaxTime
Slots == 1..NumSlots

\* ------------------------------------------------------------ enumerations
MX_SIDE_BUY == 0
MX_SIDE_SELL == 1
Sides == {MX_SIDE_BUY, MX_SIDE_SELL}

MX_ORDER_TYPE_LIMIT == 0
MX_ORDER_TYPE_MARKET == 1
MX_ORDER_TYPE_STOP == 2
MX_ORDER_TYPE_STOP_LIMIT == 3

MX_TIF_GTC == 0
MX_TIF_IOC == 1
MX_TIF_FOK == 2
MX_TIF_DAY == 3
MX_TIF_GTD == 4

MX_ORDER_FLAG_NONE == 0
MX_ORDER_FLAG_POST_ONLY == 1
MX_ORDER_FLAG_HIDDEN == 2
MX_ORDER_FLAG_AON == 4
MX_ORDER_FLAG_REDUCE_ONLY == 8

MX_STATUS_OK == 0
MX_STATUS_INVALID_PARAM == -2
MX_STATUS_OUT_OF_MEMORY == -3
MX_STATUS_ORDER_NOT_FOUND == -4
MX_STATUS_INVALID_PRICE == -5
MX_STATUS_INVALID_QUANTITY == -6
MX_STATUS_DUPLICATE_ORDER == -7
MX_STATUS_WOULD_MATCH == -8
MX_STATUS_CANNOT_FILL == -9

INVALID_ORDER_ID == 0

\* OrderState
PENDING_NEW == 0
ACTIVE == 1
PARTIALLY_FILLED == 2
FILLED == 3
CANCELLED == 4
REJECTED == 5
EXPIRED == 6
TRIGGERED == 7

\* Pointers: Null, a slot index, or Wild (an indeterminate value read from
\* storage that no constructor has written).
Null == 0
Wild == -1

MX_MIN(a, b) == IF a < b THEN a ELSE b

MX_HAS_BIT(flags, bit) == (flags \div bit) % 2 = 1

\* ------------------------------------------------------------------- Order
Order(id, side, type, price, stop_price, quantity, display_qty, tif, flags, created, expire) ==
    [next |-> Null, prev |-> Null,
     order_id_ |-> id, side_ |-> side, order_type_ |-> type,
     state_ |-> PENDING_NEW, time_in_force_ |-> tif, flags_ |-> flags,
     price_ |-> price, stop_price_ |-> stop_price,
     total_quantity_ |-> quantity, filled_quantity_ |-> 0,
     display_quantity_ |-> display_qty, visible_filled_ |-> 0,
     created_time_ |-> created, expire_time_ |-> expire]

SimpleOrder(id, side, type, price, quantity, created) ==
    Order(id, side, type, price, 0, quantity, 0, MX_TIF_GTC, MX_ORDER_FLAG_NONE, created, 0)

remaining_quantity(o) == o.total_quantity_ - o.filled_quantity_

visible_quantity(o) ==
    IF o.display_quantity_ = 0 THEN remaining_quantity(o)
    ELSE IF o.display_quantity_ > o.visible_filled_
         THEN o.display_quantity_ - o.visible_filled_
         ELSE 0

is_buy(o) == o.side_ = MX_SIDE_BUY
is_sell(o) == o.side_ = MX_SIDE_SELL
is_market(o) == o.order_type_ = MX_ORDER_TYPE_MARKET
is_stop(o) == o.order_type_ = MX_ORDER_TYPE_STOP \/ o.order_type_ = MX_ORDER_TYPE_STOP_LIMIT
is_active(o) == o.state_ = ACTIVE
is_filled(o) == o.state_ = FILLED
is_partially_filled(o) == o.state_ = PARTIALLY_FILLED
is_gtc(o) == o.time_in_force_ = MX_TIF_GTC
is_ioc(o) == o.time_in_force_ = MX_TIF_IOC
is_fok(o) == o.time_in_force_ = MX_TIF_FOK
is_day(o) == o.time_in_force_ = MX_TIF_DAY
is_gtd(o) == o.time_in_force_ = MX_TIF_GTD
is_post_only(o) == MX_HAS_BIT(o.flags_, MX_ORDER_FLAG_POST_ONLY)
is_iceberg(o) == o.display_quantity_ > 0
is_linked(o) == o.next # Null \/ o.prev # Null
is_expired(o, current_time) == o.expire_time_ > 0 /\ current_time >= o.expire_time_

\* Order::fill
fill(o, quantity) ==
    LET can_fill == MX_MIN(quantity, remaining_quantity(o))
        filled == o.filled_quantity_ + can_fill
        vf1 == IF is_iceberg(o) THEN o.visible_filled_ + can_fill ELSE o.visible_filled_
        vf2 == IF is_iceberg(o) /\ vf1 >= o.display_quantity_
                  /\ o.total_quantity_ - filled > 0
               THEN 0 ELSE vf1
    IN  IF can_fill = 0 THEN o
        ELSE [o EXCEPT !.filled_quantity_ = filled,
                       !.visible_filled_ = vf2,
                       !.state_ = IF filled >= o.total_quantity_
                                  THEN FILLED ELSE PARTIALLY_FILLED]

\* Order::reduce_quantity
reduce_quantity(o, new_quantity) ==
    IF new_quantity >= o.total_quantity_ THEN o
    ELSE IF new_quantity <= o.filled_quantity_ THEN o
    ELSE [o EXCEPT !.total_quantity_ = new_quantity]

\* Order::trigger_stop
trigger_stop(o) ==
    [o EXCEPT !.order_type_ = IF o.order_type_ = MX_ORDER_TYPE_STOP
                              THEN MX_ORDER_TYPE_MARKET
                              ELSE IF o.order_type_ = MX_ORDER_TYPE_STOP_LIMIT
                                   THEN MX_ORDER_TYPE_LIMIT
                                   ELSE o.order_type_,
              !.state_ = TRIGGERED,
              !.stop_price_ = 0]

\* ------------------------------------------------------------- OrderBook b
\* Callbacks delivered so far in the current API call (CallbackContext).
TradeEv(aggressive_id, passive_id, price, qty) ==
    [kind |-> "TRADE", id |-> aggressive_id, id2 |-> passive_id, x |-> price, y |-> qty]

OrderEv(event, order_id, filled, remaining) ==
    [kind |-> event, id |-> order_id, id2 |-> 0, x |-> filled, y |-> remaining]

notify_trade(b, aggressive_id, passive_id, price, qty) ==
    [b EXCEPT !.ev = Append(@, TradeEv(aggressive_id, passive_id, price, qty))]

\* (variant: the event is delivered ahead of the callbacks already made)
notify_order_event_first(b, order_id, event, filled, remaining) ==
    [b EXCEPT !.ev = <<OrderEv(event, order_id, filled, remaining)>> \o @]

notify_order_event(b, order_id, event, filled, remaining) ==
    [b EXCEPT !.ev = Append(@, OrderEv(event, order_id, filled, remaining))]

Segv(b) == [b EXCEPT !.fault = "segv"]
Hang(b) == [b EXCEPT !.fault = "hang"]

MapPut(f, k, v) == [x \in DOMAIN f \cup {k} |-> IF x = k THEN v ELSE f[x]]
MapErase(f, k) == [x \in DOMAIN f \ {k} |-> f[x]]

\* ------------------------------------------------------------- MemoryPool
\* MemoryPool::construct = allocate + placement new.  A free list that runs
\* out would take a new chunk from malloc; the model has one chunk.
pool_construct(b, o) ==
    LET node == b.free_list_head_
    IN  [b EXCEPT !.free_list_head_ = b.slots[node].next,
                  !.slots[node] = o]

\* MemoryPool::destroy = trivial destructor + deallocate: the free-list link
\* is written over the first word of the object, which is `next'.
pool_destroy(b, ptr) ==
    [b EXCEPT !.slots[ptr].next = b.free_list_head_,
              !.free_list_head_ = ptr]

\* -------------------------------------------------------------- OrderPool
has_order(b, id) == id \in DOMAIN b.order_lookup_

find_order(b, id) == IF id \in DOMAIN b.order_lookup_ THEN b.order_lookup_[id] ELSE Null

\* create_order / create_market_order / create_order_full: the caller has
\* checked has_order; the new order is at the old head of the free list.
create_order_full(b, o) ==
    LET ptr == b.free_list_head_
        st == IF o.order_type_ = MX_ORDER_TYPE_STOP \/ o.order_type_ = MX_ORDER_TYPE_STOP_LIMIT
              THEN PENDING_NEW ELSE ACTIVE
        b1 == pool_construct(b, [o EXCEPT !.state_ = st])
    IN  [b1 EXCEPT !.order_lookup_ = MapPut(@, o.order_id_, ptr)]

destroy_order(b, order) ==
    IF b.fault # "" THEN b
    ELSE LET id == b.slots[order].order_id_
             b1 == [b EXCEPT !.order_lookup_ = MapErase(@, id)]
         IN  pool_destroy(b1, order)

\* ---------------------------------------------------------- IntrusiveList
\* The list of the level (side, price); `L' is the PriceLevel record.
Levels(b, side) == IF side = MX_SIDE_BUY THEN b.bid_levels_ ELSE b.ask_levels_

SetLevel(b, side, price, L) ==
    IF side = MX_SIDE_BUY
    THEN [b EXCEPT !.bid_levels_ = MapPut(@, price, L)]
    ELSE [b EXCEPT !.ask_levels_ = MapPut(@, price, L)]

PriceLevel(price) ==
    [price_ |-> price, head_ |-> Null, tail_ |-> Null, size_ |-> 0,
     total_volume_ |-> 0, visible_volume_ |-> 0]

push_back(b, side, price, node) ==
    IF b.fault # "" THEN b
    ELSE LET L == Levels(b, side)[price]
             S1 == [b.slots EXCEPT ![node].next = Null, ![node].prev = L.tail_]
         IN  IF L.tail_ = Wild THEN Segv(b)
             ELSE LET S2 == IF L.tail_ # Null THEN [S1 EXCEPT ![L.tail_].next = node] ELSE S1
                      L2 == [L EXCEPT !.head_ = IF L.tail_ # Null THEN @ ELSE node,
                                       !.tail_ = node,
                                       !.size_ = @ + 1]
                  IN  SetLevel([b EXCEPT !.slots = S2], side, price, L2)

pop_front(b, side, price) ==
    IF b.fault # "" THEN b
    ELSE LET L == Levels(b, side)[price]
             node == L.head_
         IN  IF node = Null THEN b
             ELSE IF node = Wild THEN Segv(b)
             ELSE LET nh == b.slots[node].next
                  IN  IF nh = Wild THEN Segv(b)
                      ELSE LET S1 == IF nh # Null THEN [b.slots EXCEPT ![nh].prev = Null]
                                     ELSE b.slots
                               S2 == [S1 EXCEPT ![node].next = Null, ![node].prev = Null]
                               L2 == [L EXCEPT !.head_ = nh,
                                               !.tail_ = IF nh # Null THEN @ ELSE Null,
                                               !.size_ = @ - 1]
                           IN  SetLevel([b EXCEPT !.slots = S2], side, price, L2)

list_remove(b, side, price, node) ==
    IF b.fault # "" THEN b
    ELSE LET L == Levels(b, side)[price]
             p == b.slots[node].prev
         IN  IF p = Wild THEN Segv(b)
             ELSE LET S1 == IF p # Null THEN [b.slots EXCEPT ![p].next = b.slots[node].next]
                            ELSE b.slots
                      L1 == IF p # Null THEN L ELSE [L EXCEPT !.head_ = b.slots[node].next]
                      n == S1[node].next
                  IN  IF n = Wild THEN Segv(b)
                      ELSE LET S2 == IF n # Null THEN [S1 EXCEPT ![n].prev = S1[node].prev]
                                     ELSE S1
                               L2 == IF n # Null THEN L1 ELSE [L1 EXCEPT !.tail_ = S1[node].prev]
                               S3 == [S2 EXCEPT ![node].next = Null, ![node].prev = Null]
                           IN  SetLevel([b EXCEPT !.slots = S3], side, price,
                                        [L2 EXCEPT !.size_ = @ - 1])

\* ------------------------------------------------------------- PriceLevel
level_empty(L) == L.size_ = 0

\* PriceLevel::add_order
add_order_to_level(b, side, price, order) ==
    LET Pushed(b1) ==
            IF b1.fault # "" THEN b1
            ELSE SetLevel(b1, side, price,
                          [Levels(b1, side)[price] EXCEPT
                              !.total_volume_ = @ + remaining_quantity(b1.slots[order]),
                              !.visible_volume_ = @ + visible_quantity(b1.slots[order])])
    IN  Pushed(push_back(b, side, price, order))

\* PriceLevel::remove_order
remove_order(b, side, price, order) ==
    LET L == Levels(b, side)[price]
        o == b.slots[order]
        b1 == SetLevel(b, side, price,
                       [L EXCEPT !.total_volume_ = @ - remaining_quantity(o),
                                 !.visible_volume_ = @ - visible_quantity(o)])
    IN  list_remove(b1, side, price, order)

\* PriceLevel::update_order_volume
update_order_volume(b, side, price, order, old_remaining, old_visible) ==
    LET L == Levels(b, side)[price]
        o == b.slots[order]
        b1 == SetLevel(b, side, price,
                       [L EXCEPT !.total_volume_ = @ - old_remaining + remaining_quantity(o),
                                 !.visible_volume_ = @ - old_visible + visible_quantity(o)])
    IN  IF is_iceberg(o) /\ visible_quantity(o) > old_visible
        THEN push_back(list_remove(b1, side, price, order), side, price, order)
        ELSE b1

\* (variant of the lambda below: the passive order's ORDER_PARTIAL is delivered
\* ahead of the trade)
on_trade_partial_first(m, agg_id, pass_id, price, qty) ==
    LET passive_order == find_order(m.b, pass_id)
        b1 == IF passive_order # Null /\ ~is_filled(m.b.slots[passive_order])
                 /\ m.b.slots[passive_order].filled_quantity_ > 0
              THEN notify_order_event(m.b, pass_id, "ORDER_PARTIAL",
                       m.b.slots[passive_order].filled_quantity_,
                       remaining_quantity(m.b.slots[passive_order]))
              ELSE m.b
        b2 == notify_trade(b1, agg_id, pass_id, price, qty)
    IN  IF passive_order # Null /\ is_filled(m.b.slots[passive_order])
        THEN [m EXCEPT !.b = b2, !.filled_orders = Append(@, pass_id)]
        ELSE [m EXCEPT !.b = b2]

\* The lambda that OrderBook::match_*_order passes to match_orders as
\* on_trade(agg_id, pass_id, price, qty, ts); m = [b, filled_orders, total_matched].
on_trade(m, agg_id, pass_id, price, qty) ==
    LET b1 == notify_trade(m.b, agg_id, pass_id, price, qty)
        passive_order == find_order(b1, pass_id)
    IN  IF passive_order = Null THEN [m EXCEPT !.b = b1]
        ELSE IF is_filled(b1.slots[passive_order])
             THEN [m EXCEPT !.b = b1, !.filled_orders = Append(@, pass_id)]
        ELSE IF b1.slots[passive_order].filled_quantity_ > 0
             THEN [m EXCEPT !.b = notify_order_event(b1, pass_id, "ORDER_PARTIAL",
                                  b1.slots[passive_order].filled_quantity_,
                                  remaining_quantity(b1.slots[passive_order]))]
        ELSE [m EXCEPT !.b = b1]

\* One iteration of the while loop of PriceLevel::match_orders.
match_orders_step(m, side, price, aggressive_order, max_quantity) ==
    LET b == m.b
        L == Levels(b, side)[price]
        passive_order == L.head_
    IN  IF passive_order \notin Slots THEN [m EXCEPT !.b = Segv(b)]
        ELSE
        LET aggressive_remaining == max_quantity - m.total_matched
            passive_remaining == remaining_quantity(b.slots[passive_order])
            match_qty == MX_MIN(aggressive_remaining, passive_remaining)
            execution_price == b.slots[passive_order].price_
            \* after on_trade: pop a filled passive order, or refresh an iceberg
            Requeued(b4) ==
                IF b4.fault # "" THEN b4
                ELSE SetLevel(b4, side, price,
                       [Levels(b4, side)[price] EXCEPT !.visible_volume_ =
                           @ + visible_quantity(b4.slots[passive_order])])
            Traded(m1) ==
                [m1 EXCEPT !.total_matched = @ + match_qty,
                           !.b = IF is_filled(m1.b.slots[passive_order])
                                 THEN pop_front(m1.b, side, price)
                                 ELSE IF is_iceberg(m1.b.slots[passive_order])
                                         /\ visible_quantity(m1.b.slots[passive_order]) = 0
                                 THEN Requeued(push_back(
                                          list_remove(m1.b, side, price, passive_order),
                                          side, price, passive_order))
                                 ELSE m1.b]
            \* S2: the slots after aggressive_order->fill and passive_order->fill
            Filled(S2) ==
                Traded(
                  IF is_buy(S2[aggressive_order])
                  THEN on_trade([m EXCEPT !.b = SetLevel([b EXCEPT !.slots = S2], side, price,
                                     [L EXCEPT !.total_volume_ = @ - match_qty,
                                               !.visible_volume_ = @ - MX_MIN(match_qty,
                                                   visible_quantity(S2[passive_order]))])],
                                S2[aggressive_order].order_id_, S2[passive_order].order_id_,
                                execution_price, match_qty)
                  ELSE on_trade([m EXCEPT !.b = SetLevel([b EXCEPT !.slots = S2], side, price,
                                     [L EXCEPT !.total_volume_ = @ - match_qty,
                                               !.visible_volume_ = @ - MX_MIN(match_qty,
                                                   visible_quantity(S2[passive_order]))])],
                                S2[passive_order].order_id_, S2[aggressive_order].order_id_,
                                execution_price, match_qty))
        IN  Filled([[b.slots EXCEPT ![aggressive_order] = fill(@, match_qty)]
                       EXCEPT ![passive_order] = fill(@, match_qty)])

RECURSIVE match_orders_loop(_, _, _, _, _, _)
match_orders_loop(m, side, price, aggressive_order, max_quantity, fuel) ==
    LET Again(m1) ==
            IF m1.b.fault # "" THEN m1
            ELSE IF is_filled(m1.b.slots[aggressive_order]) THEN m1
            ELSE match_orders_loop(m1, side, price, aggressive_order, max_quantity, fuel - 1)
    IN  IF m.b.fault # "" THEN m
        ELSE IF ~(m.total_matched < max_quantity /\ ~level_empty(Levels(m.b, side)[price]))
        THEN m
        ELSE IF fuel = 0 THEN [m EXCEPT !.b = Hang(m.b)]
        ELSE Again(match_orders_step(m, side, price, aggressive_order, max_quantity))

\* PriceLevel::match_orders on the level (side, price); the result carries the
\* filled_orders vector that the callback filled.
match_orders(b, side, price, aggressive_order, max_quantity) ==
    match_orders_loop([b |-> b, filled_orders |-> <<>>, total_matched |-> 0],
                      side, price, aggressive_order, max_quantity, LoopFuel)

\* -------------------------------------------------------------- OrderBook
MaxOf(S) == CHOOSE x \in S : \A y \in S : y <= x
MinOf(S) == CHOOSE x \in S : \A y \in S : x <= y

\* Variant that keeps the cached best bid instead of recomputing it.
update_best_bid_kept(b) == b

update_best_bid(b) ==
    [b EXCEPT !.best_bid_ = IF DOMAIN b.bid_levels_ = {} THEN 0
                            ELSE MaxOf(DOMAIN b.bid_levels_)]

update_best_ask(b) ==
    [b EXCEPT !.best_ask_ = IF DOMAIN b.ask_levels_ = {} THEN 0
                            ELSE MinOf(DOMAIN b.ask_levels_)]

EraseLevel(b, side, price) ==
    IF side = MX_SIDE_BUY
    THEN [b EXCEPT !.bid_levels_ = MapErase(@, price)]
    ELSE [b EXCEPT !.ask_levels_ = MapErase(@, price)]

\* "Destroy fully filled passive orders": the for loop over filled_orders.
RECURSIVE destroy_filled_orders(_, _)
destroy_filled_orders(b, filled_orders) ==
    IF filled_orders = <<>> \/ b.fault # "" THEN b
    ELSE LET filled_id == Head(filled_orders)
             filled_order == find_order(b, filled_id)
         IN  destroy_filled_orders(
                 IF filled_order # Null
                 THEN destroy_order(
                          notify_order_event(b, filled_id, "ORDER_FILLED",
                              b.slots[filled_order].filled_quantity_, 0),
                          filled_order)
                 ELSE b,
                 Tail(filled_orders))

\* The while loop shared by the four branches of match_limit_order and
\* match_market_order: `book_side' is the side walked, `todo' the keys from
\* the iterator to end(), `limit' whether the price check is made.
RECURSIVE match_walk(_, _, _, _, _)
match_walk(b, order, book_side, todo, limit) ==
    IF b.fault # "" THEN b
    ELSE IF todo = {} \/ ~(remaining_quantity(b.slots[order]) > 0) THEN b
    ELSE LET price == IF book_side = MX_SIDE_SELL THEN MinOf(todo) ELSE MaxOf(todo)
             stop == limit /\ (IF book_side = MX_SIDE_SELL
                               THEN b.slots[order].price_ < price
                               ELSE b.slots[order].price_ > price)
             \* "Remove empty level"
             Destroyed(b1) ==
                 IF b1.fault # "" THEN b1
                 ELSE IF level_empty(Levels(b1, book_side)[price])
                 THEN IF book_side = MX_SIDE_SELL
                      THEN update_best_ask(EraseLevel(b1, book_side, price))
                      ELSE update_best_bid(EraseLevel(b1, book_side, price))
                 ELSE b1
             Matched(m) == Destroyed(destroy_filled_orders(m.b, m.filled_orders))
         IN  IF stop THEN b
             ELSE match_walk(Matched(match_orders(b, book_side, price, order,
                                                  remaining_quantity(b.slots[order]))),
                             order, book_side, todo \ {price}, limit)

\* A matcher that leaves every resting order alone: the incoming limit order
\* then rests at a price that crosses the other side.
match_limit_order_skipped(b, order) == b

match_limit_order(b, order) ==
    IF is_buy(b.slots[order])
    THEN match_walk(b, order, MX_SIDE_SELL, DOMAIN b.ask_levels_, TRUE)
    ELSE match_walk(b, order, MX_SIDE_BUY, DOMAIN b.bid_levels_, TRUE)

match_market_order(b, order) ==
    IF is_buy(b.slots[order])
    THEN match_walk(b, order, MX_SIDE_SELL, DOMAIN b.ask_levels_, FALSE)
    ELSE match_walk(b, order, MX_SIDE_BUY, DOMAIN b.bid_levels_, FALSE)

\* OrderBook::match_order is declared in order_book.h; its body is not in the
\* sources.  Section 4.4 "Matching algorithm": market orders never halt on price.
match_order(b, order) ==
    IF is_market(b.slots[order]) THEN match_market_order(b, order)
    ELSE match_limit_order(b, order)

SetStatus(b, st) == [b EXCEPT !.status = st]

SetState(b, order, st) == [b EXCEPT !.slots[order].state_ = st]

get_or_create_level(b, side, price) ==
    IF price \in DOMAIN Levels(b, side) THEN b
    ELSE SetLevel(b, side, price, PriceLevel(price))

add_to_book(b, order) ==
    LET o == b.slots[order]
        Added(b1) ==
            IF b1.fault # "" THEN b1
            ELSE IF is_buy(o)
                 THEN IF o.price_ > b1.best_bid_ THEN [b1 EXCEPT !.best_bid_ = o.price_] ELSE b1
                 ELSE IF b1.best_ask_ = 0 \/ o.price_ < b1.best_ask_
                      THEN [b1 EXCEPT !.best_ask_ = o.price_] ELSE b1
    IN  Added(add_order_to_level(get_or_create_level(b, o.side_, o.price_),
                                 o.side_, o.price_, order))

remove_level_if_empty(b, side, price) ==
    IF price \in DOMAIN Levels(b, side) /\ level_empty(Levels(b, side)[price])
    THEN EraseLevel(b, side, price)
    ELSE b

remove_from_book(b, order) ==
    LET o == b.slots[order]
        Erased(b2) ==
            IF b2.fault # "" THEN b2
            ELSE IF is_buy(o) /\ o.price_ = b2.best_bid_ THEN update_best_bid(b2)
            ELSE IF is_sell(o) /\ o.price_ = b2.best_ask_ THEN update_best_ask(b2)
            ELSE b2
        Removed(b1) ==
            Erased(IF b1.fault # "" THEN b1 ELSE remove_level_if_empty(b1, o.side_, o.price_))
    IN  IF ~is_active(o) /\ ~is_partially_filled(o) THEN b
        ELSE IF o.price_ \notin DOMAIN Levels(b, o.side_) THEN b
        ELSE Removed(remove_order(b, o.side_, o.price_, order))

would_match_immediately(b, o) ==
    IF is_buy(o) THEN b.best_ask_ > 0 /\ o.price_ >= b.best_ask_
    ELSE b.best_bid_ > 0 /\ o.price_ <= b.best_bid_

\* available_quantity >= remaining_quantity on uint32: a negative integer
\* stands for a value near 2^32.
Ge32(a, r) == a < 0 \/ a >= r

RECURSIVE can_fill_walk(_, _, _, _, _)
can_fill_walk(b, o, book_side, todo, available_quantity) ==
    IF todo = {} THEN FALSE
    ELSE LET price == IF book_side = MX_SIDE_SELL THEN MinOf(todo) ELSE MaxOf(todo)
             stop == IF book_side = MX_SIDE_SELL THEN o.price_ < price ELSE o.price_ > price
             avail == available_quantity + Levels(b, book_side)[price].total_volume_
         IN  IF stop THEN FALSE
             ELSE IF Ge32(avail, remaining_quantity(o)) THEN TRUE
             ELSE can_fill_walk(b, o, book_side, todo \ {price}, avail)

can_fill_fok(b, o) ==
    IF is_buy(o) THEN can_fill_walk(b, o, MX_SIDE_SELL, DOMAIN b.ask_levels_, 0)
    ELSE can_fill_walk(b, o, MX_SIDE_BUY, DOMAIN b.bid_levels_, 0)

handle_ioc_order(b, order) ==
    LET Matched(b1) ==
            IF b1.fault # "" THEN b1
            ELSE LET o == b1.slots[order]
                 IN  SetStatus(
                       destroy_order(
                         IF remaining_quantity(o) > 0
                         THEN notify_order_event(SetState(b1, order, CANCELLED), o.order_id_,
                                                 "ORDER_CANCELLED", o.filled_quantity_, 0)
                         ELSE notify_order_event(b1, o.order_id_, "ORDER_FILLED",
                                                 o.filled_quantity_, 0),
                         order),
                       MX_STATUS_OK)
    IN  Matched(match_order(b, order))

handle_fok_order(b, order) ==
    LET Matched(b1) ==
            IF b1.fault # "" THEN b1
            ELSE LET o == b1.slots[order]
                 IN  SetStatus(
                       destroy_order(
                         IF is_filled(o)
                         THEN notify_order_event(b1, o.order_id_, "ORDER_FILLED",
                                                 o.filled_quantity_, 0)
                         ELSE b1,
                         order),
                       MX_STATUS_OK)
    IN  IF ~can_fill_fok(b, b.slots[order])
        THEN SetStatus(destroy_order(
                           notify_order_event(SetState(b, order, REJECTED),
                                              b.slots[order].order_id_, "ORDER_REJECTED", 0, 0),
                           order),
                       MX_STATUS_CANNOT_FILL)
        ELSE Matched(match_order(b, order))

process_new_order(b, order) ==
    LET Rested(b2, o) ==
            IF b2.fault # "" THEN b2
            ELSE SetStatus(
                   IF o.filled_quantity_ > 0
                   THEN notify_order_event(b2, o.order_id_, "ORDER_PARTIAL",
                            o.filled_quantity_, remaining_quantity(o))
                   ELSE notify_order_event(b2, o.order_id_, "ORDER_ACCEPTED",
                            0, remaining_quantity(o)),
                   MX_STATUS_OK)
        Matched(b1) ==
            IF b1.fault # "" THEN b1
            ELSE
            LET o == b1.slots[order]
            IN  IF is_market(o)
                THEN SetStatus(
                       destroy_order(
                         IF remaining_quantity(o) > 0
                         THEN notify_order_event(SetState(b1, order, CANCELLED), o.order_id_,
                                                 "ORDER_CANCELLED", o.filled_quantity_, 0)
                         ELSE notify_order_event(b1, o.order_id_, "ORDER_FILLED",
                                                 o.filled_quantity_, 0),
                         order),
                       MX_STATUS_OK)
                ELSE IF remaining_quantity(o) > 0 /\ ~is_filled(o)
                THEN IF is_gtc(o) \/ is_day(o) \/ is_gtd(o)
                     THEN Rested(add_to_book(b1, order), o)
                     ELSE SetStatus(destroy_order(
                                      notify_order_event(SetState(b1, order, CANCELLED),
                                          o.order_id_, "ORDER_CANCELLED", o.filled_quantity_, 0),
                                      order),
                                    MX_STATUS_OK)
                ELSE IF is_filled(o)
                THEN SetStatus(destroy_order(
                                 notify_order_event(b1, o.order_id_, "ORDER_FILLED",
                                                    o.filled_quantity_, 0),
                                 order),
                               MX_STATUS_OK)
                ELSE SetStatus(b1, MX_STATUS_OK)
    IN  IF b.fault # "" THEN b
        ELSE IF is_post_only(b.slots[order]) /\ would_match_immediately(b, b.slots[order])
        THEN SetStatus(destroy_order(
                           notify_order_event(SetState(b, order, REJECTED),
                                              b.slots[order].order_id_, "ORDER_REJECTED", 0, 0),
                           order),
                       MX_STATUS_WOULD_MATCH)
        ELSE IF is_fok(b.slots[order]) THEN handle_fok_order(b, order)
        ELSE IF is_ioc(b.slots[order]) THEN handle_ioc_order(b, order)
        ELSE Matched(match_order(b, order))

should_trigger_stop(b, o) ==
    IF ~is_stop(o) THEN FALSE
    ELSE IF is_buy(o) THEN b.best_ask_ > 0 /\ b.best_ask_ >= o.stop_price_
    ELSE b.best_bid_ > 0 /\ b.best_bid_ <= o.stop_price_

handle_stop_order(b, order) ==
    IF should_trigger_stop(b, b.slots[order])
    THEN process_new_order([b EXCEPT !.slots[order] = trigger_stop(@)], order)
    ELSE SetStatus(
           notify_order_event(
               [b EXCEPT !.stop_orders_ = MapPut(@, b.slots[order].order_id_, order)],
               b.slots[order].order_id_, "ORDER_ACCEPTED", 0,
               remaining_quantity(b.slots[order])),
           MX_STATUS_OK)

\* ------------------------------------------------------ public operations
\* `now' is Context::get_timestamp().
add_limit_order(b, order_id, side, price, quantity, now) ==
    IF order_id = INVALID_ORDER_ID THEN SetStatus(b, MX_STATUS_INVALID_PARAM)
    ELSE IF price = 0 THEN SetStatus(b, MX_STATUS_INVALID_PRICE)
    ELSE IF quantity = 0 THEN SetStatus(b, MX_STATUS_INVALID_QUANTITY)
    ELSE IF has_order(b, order_id) THEN SetStatus(b, MX_STATUS_DUPLICATE_ORDER)
    ELSE LET order == b.free_list_head_
         IN  process_new_order(
                 create_order_full(b, SimpleOrder(order_id, side, MX_ORDER_TYPE_LIMIT,
                                                  price, quantity, now)),
                 order)

add_market_order(b, order_id, side, quantity, now) ==
    IF order_id = INVALID_ORDER_ID THEN SetStatus(b, MX_STATUS_INVALID_PARAM)
    ELSE IF quantity = 0 THEN SetStatus(b, MX_STATUS_INVALID_QUANTITY)
    ELSE IF has_order(b, order_id) THEN SetStatus(b, MX_STATUS_DUPLICATE_ORDER)
    ELSE LET order == b.free_list_head_
         IN  process_new_order(
                 create_order_full(b, SimpleOrder(order_id, side, MX_ORDER_TYPE_MARKET,
                                                  0, quantity, now)),
                 order)

cancel_order(b, order_id) ==
    LET order == find_order(b, order_id)
        Removed(b1) ==
            IF b1.fault # "" THEN b1
            ELSE SetStatus(
                   destroy_order(
                     notify_order_event(SetState(b1, order, CANCELLED), order_id,
                                        "ORDER_CANCELLED", b.slots[order].filled_quantity_, 0),
                     order),
                   MX_STATUS_OK)
    IN  IF order = Null THEN SetStatus(b, MX_STATUS_ORDER_NOT_FOUND)
        ELSE IF is_stop(b.slots[order]) /\ b.slots[order].state_ = PENDING_NEW
             THEN Removed([b EXCEPT !.stop_orders_ = MapErase(@, order_id)])
             ELSE Removed(remove_from_book(b, order))

modify_order(b, order_id, new_quantity) ==
    LET order == find_order(b, order_id)
    IN  IF order = Null THEN SetStatus(b, MX_STATUS_ORDER_NOT_FOUND)
        ELSE LET o == b.slots[order]
             IN  IF new_quantity >= o.total_quantity_ THEN SetStatus(b, MX_STATUS_INVALID_QUANTITY)
                 ELSE IF new_quantity <= o.filled_quantity_
                      THEN SetStatus(b, MX_STATUS_INVALID_QUANTITY)
                 ELSE IF is_active(o) \/ is_partially_filled(o)
                      THEN IF o.price_ \in DOMAIN Levels(b, o.side_)
                           THEN SetStatus(
                                  update_order_volume(
                                    [b EXCEPT !.slots[order] = reduce_quantity(@, new_quantity)],
                                    o.side_, o.price_, order,
                                    remaining_quantity(o), visible_quantity(o)),
                                  MX_STATUS_OK)
                           ELSE SetStatus(b, MX_STATUS_OK)
                      ELSE SetStatus([b EXCEPT !.slots[order] = reduce_quantity(@, new_quantity)],
                                     MX_STATUS_OK)

replace_order(b, old_order_id, new_order_id, new_price, new_quantity, now) ==
    LET Cancelled(b1) ==
            IF b1.fault # "" \/ b1.status # MX_STATUS_OK THEN b1
            ELSE IF find_order(b1, old_order_id) = Null
                 THEN SetStatus(b1, MX_STATUS_ORDER_NOT_FOUND)
                 ELSE add_limit_order(b1, new_order_id,
                                      b1.slots[find_order(b1, old_order_id)].side_,
                                      new_price, new_quantity, now)
    IN  Cancelled(cancel_order(b, old_order_id))

\* Variant that does not check the stop price.
validate_order_no_stop(b, order_id, type, price, stop_price, quantity) ==
    IF order_id = INVALID_ORDER_ID THEN MX_STATUS_INVALID_PARAM
    ELSE IF quantity = 0 THEN MX_STATUS_INVALID_QUANTITY
    ELSE IF (type = MX_ORDER_TYPE_LIMIT \/ type = MX_ORDER_TYPE_STOP_LIMIT) /\ price = 0
         THEN MX_STATUS_INVALID_PRICE
    ELSE IF has_order(b, order_id) THEN MX_STATUS_DUPLICATE_ORDER
    ELSE MX_STATUS_OK

validate_order(b, order_id, type, price, stop_price, quantity) ==
    IF order_id = INVALID_ORDER_ID THEN MX_STATUS_INVALID_PARAM
    ELSE IF quantity = 0 THEN MX_STATUS_INVALID_QUANTITY
    ELSE IF (type = MX_ORDER_TYPE_LIMIT \/ type = MX_ORDER_TYPE_STOP_LIMIT) /\ price = 0
         THEN MX_STATUS_INVALID_PRICE
    ELSE IF (type = MX_ORDER_TYPE_STOP \/ type = MX_ORDER_TYPE_STOP_LIMIT) /\ stop_price = 0
         THEN MX_STATUS_INVALID_PRICE
    ELSE IF has_order(b, order_id) THEN MX_STATUS_DUPLICATE_ORDER
    ELSE MX_STATUS_OK

add_order(b, order_id, order_type, side, price, stop_price, quantity, display_qty, tif, flags, expire_time, now) ==
    LET status == validate_order(b, order_id, order_type, price, stop_price, quantity)
        order == b.free_list_head_
        Created(b1) ==
            IF is_stop(b1.slots[order]) THEN handle_stop_order(b1, order)
            ELSE process_new_order(b1, order)
    IN  IF status # MX_STATUS_OK THEN SetStatus(b, status)
        ELSE Created(create_order_full(b, Order(order_id, side, order_type, price, stop_price,
                                                quantity, display_qty, tif, flags, now,
                                                expire_time)))

\* The "Cancel them" loop of process_expirations over expired_orders.
RECURSIVE expire_loop(_, _)
expire_loop(b, expired_orders) ==
    IF expired_orders = <<>> \/ b.fault # "" THEN b
    ELSE LET id == Head(expired_orders)
             order == find_order(b, id)
             Removed(b2) ==
                 IF b2.fault # "" THEN b2
                 ELSE destroy_order(
                        notify_order_event(SetState(b2, order, EXPIRED), id,
                            "ORDER_EXPIRED", b2.slots[order].filled_quantity_, 0),
                        order)
         IN  expire_loop(IF order = Null THEN b ELSE Removed(remove_from_book(b, order)),
                         Tail(expired_orders))

\* `iter' is the order in which the unordered_map order_lookup_ is iterated.
process_expirations(b, current_time, iter) ==
    LET Expired(id) == is_expired(b.slots[b.order_lookup_[id]], current_time)
        expired_orders == SelectSeq(iter, Expired)
    IN  SetStatus(expire_loop(b, expired_orders), Len(expired_orders))

\* The "Trigger them" loop of process_stops; the count is kept in status.
RECURSIVE trigger_loop(_, _)
trigger_loop(b, to_trigger) ==
    IF to_trigger = <<>> \/ b.fault # "" THEN b
    ELSE LET id == Head(to_trigger)
             \* b2: the stop erased from stop_orders_ and triggered
             Triggered(b2, order) ==
                 [process_new_order(
                      notify_order_event(b2, id, "ORDER_TRIGGERED", 0,
                                         remaining_quantity(b2.slots[order])),
                      order)
                  EXCEPT !.triggered_count = @ + 1]
         IN  trigger_loop(
                 IF id \notin DOMAIN b.stop_orders_ THEN b
                 ELSE Triggered([b EXCEPT !.stop_orders_ = MapErase(@, id),
                                          !.slots[b.stop_orders_[id]] = trigger_stop(@)],
                                b.stop_orders_[id]),
                 Tail(to_trigger))

\* (variant: the triggered stops stay in the pending-stop table)
process_stops_kept(b, iter) ==
    LET Trig(id) == should_trigger_stop(b, b.slots[b.stop_orders_[id]])
        ids == SelectSeq(iter, Trig)
        to_trigger == [i \in 1..Len(ids) |-> b.slots[b.stop_orders_[ids[i]]].order_id_]
        Done(b1) == [SetStatus(b1, b1.triggered_count) EXCEPT !.stop_orders_ = b.stop_orders_]
    IN  Done(trigger_loop([b EXCEPT !.triggered_count = 0], to_trigger))

\* `iter' is the order in which the unordered_map stop_orders_ is iterated.
process_stops(b, iter) ==
    LET Trig(id) == should_trigger_stop(b, b.slots[b.stop_orders_[id]])
        ids == SelectSeq(iter, Trig)
        to_trigger == [i \in 1..Len(ids) |-> b.slots[b.stop_orders_[ids[i]]].order_id_]
        Done(b1) == SetStatus(b1, b1.triggered_count)
    IN  Done(trigger_loop([b EXCEPT !.triggered_count = 0], to_trigger))

\* ------------------------------------------------------------------ state
\* book: the OrderBook with its pool; current_timestamp_: the Context clock;
\* call: the last API call; calls_left: API calls the run may still make;
\* manager: the server's OrderManager in front of the book.
VARIABLES book, current_timestamp_, call, calls_left, manager

vars == <<book, current_timestamp_, call, calls_left, manager>>

EmptyMap == [x \in {} |-> 0]

\* What a pool slot holds before any order is constructed in it: malloc'ed
\* storage, of which allocate_chunk writes only the free-list link.
Zeroed == Order(0, 0, 0, 0, 0, 0, 0, 0, 0, 0, 0)
Junk == [Order(MaxOid, MX_SIDE_SELL, MX_ORDER_TYPE_LIMIT, 1, 0, 1, 0, MX_TIF_GTC, 0, 0, 0)
            EXCEPT !.prev = Wild, !.state_ = ACTIVE]
Garbage == {Zeroed, Junk}

NewBook(g) ==
    [slots |-> [i \in Slots |-> [g EXCEPT !.next = i - 1]],
     free_list_head_ |-> NumSlots,
     order_lookup_ |-> EmptyMap,
     bid_levels_ |-> EmptyMap,
     ask_levels_ |-> EmptyMap,
     stop_orders_ |-> EmptyMap,
     best_bid_ |-> 0,
     best_ask_ |-> 0,
     ev |-> <<>>,
     status |-> 0,
     triggered_count |-> 0,
     fault |-> ""]

\* The OrderManager after its constructor and add_symbol("AAPL"): one book,
\* no order held, every id generator at 1.  `sent' are the messages handed to
\* the message callback during the last call, `result' the status the book
\* returned to it.
NewManager ==
    [books_ |-> [symbol \in {"AAPL"} |-> [last_trade_id |-> 0]],
     orders_ |-> EmptyMap,
     exchange_to_client_ |-> EmptyMap,
     user_orders_ |-> EmptyMap,
     next_exchange_order_id_ |-> 1,
     next_execution_id_ |-> 1,
     next_sequence_ |-> 1,
     stats_ |-> [total_orders_received |-> 0, total_orders_accepted |-> 0,
                 total_orders_rejected |-> 0, total_executions |-> 0,
                 total_volume |-> 0],
     sent |-> <<>>,
     result |-> 0]

Call(op, oid, side, price, qty, aux) ==
    [op |-> op, oid |-> oid, side |-> side, price |-> price, qty |-> qty, aux |-> aux]

InitCalls(n) ==
    /\ \E g \in Garbage : book = NewBook(g)
    /\ current_timestamp_ = 0
    /\ call = Call("new", 0, 0, 0, 0, 0)
    /\ calls_left = n
    /\ manager = NewManager

Init == InitCalls(MaxCalls)

\* The book on entry to an API call: no callback delivered yet.
Entry == [book EXCEPT !.ev = <<>>, !.status = 0, !.triggered_count = 0]

\* The process is alive: no earlier call has crashed or hung.
CanCall == book.fault = "" /\ calls_left > 0

\* The free list can serve a construct without a new chunk.
CanAllocate == book.free_list_head_ \in Slots

Returns(b, c) ==
    /\ book' = b
    /\ call' = c
    /\ calls_left' = calls_left - 1
    /\ UNCHANGED <<current_timestamp_, manager>>

\* Sequences that enumerate the set S once each: the iteration orders an
\* unordered_map with these keys can have.
Orders(S) ==
    {q \in [1..Cardinality(S) -> S] : \A i, j \in 1..Cardinality(S) : i # j => q[i] # q[j]}

\* mx_order_book_add_limit
AddLimit(O, P, Q) ==
    \E oid \in O, side \in Sides, price \in P, qty \in Q :
        /\ CanCall /\ CanAllocate
        /\ Returns(add_limit_order(Entry, oid, side, price, qty, current_timestamp_),
                   Call("add_limit", oid, side, price, qty, 0))

\* mx_order_book_add_market
AddMarket(O, Q) ==
    \E oid \in O, side \in Sides, qty \in Q :
        /\ CanCall /\ CanAllocate
        /\ Returns(add_market_order(Entry, oid, side, qty, current_timestamp_),
                   Call("add_market", oid, side, 0, qty, 0))

\* mx_order_book_cancel
Cancel(O) ==
    \E oid \in O :
        /\ CanCall
        /\ Returns(cancel_order(Entry, oid), Call("cancel", oid, 0, 0, 0, 0))

\* mx_order_book_modify
Modify(O, Q) ==
    \E oid \in O, qty \in Q :
        /\ CanCall
        /\ Returns(modify_order(Entry, oid, qty), Call("modify", oid, 0, 0, qty, 0))

\* mx_order_book_replace
Replace(O, P, Q) ==
    \E old \in O, new \in O, price \in P, qty \in Q :
        /\ CanCall /\ CanAllocate
        /\ Returns(replace_order(Entry, old, new, price, qty, current_timestamp_),
                   Call("replace", old, 0, price, qty, new))

\* mx_order_book_add_order; a kind k fixes the type, the time in force, the
\* flags, the display quantity and the expiry of the submission.
Kind(type, tif, flags, display_qty, expire_time) ==
    [type |-> type, tif |-> tif, flags |-> flags, display_qty |-> display_qty,
     expire_time |-> expire_time]

\* The arguments of one add_order call beyond id, side, price and quantity.
Submission(k, stop_price) ==
    [type |-> k.type, tif |-> k.tif, flags |-> k.flags, display_qty |-> k.display_qty,
     expire_time |-> k.expire_time, stop_price |-> stop_price]

AddOrder(K, O, P, SP, Q) ==
    \E k \in K, oid \in O, side \in Sides, price \in P, stop_price \in SP, qty \in Q :
        /\ CanCall /\ CanAllocate
        /\ Returns(add_order(Entry, oid, k.type, side, price, stop_price, qty, k.display_qty,
                             k.tif, k.flags, k.expire_time, current_timestamp_),
                   Call("add_order", oid, side, price, qty, Submission(k, stop_price)))

\* mx_order_book_process_stops
ProcessStops ==
    \E iter \in Orders(DOMAIN book.stop_orders_) :
        /\ CanCall
        /\ Returns(process_stops(Entry, iter), Call("process_stops", 0, 0, 0, 0, 0))

\* mx_order_book_process_expirations
ProcessExpirations(T) ==
    \E now \in T, iter \in Orders(DOMAIN book.order_lookup_) :
        /\ CanCall
        /\ Returns(process_expirations(Entry, now, iter),
                   Call("process_expirations", 0, 0, 0, 0, now))

\* mx_context_set_timestamp, called with the next time: callers advance the
\* clock and never set it back.
SetTimestamp ==
    /\ CanCall
    /\ current_timestamp_ < MaxTime
    /\ current_timestamp_' = current_timestamp_ + 1
    /\ UNCHANGED <<book, call, calls_left, manager>>

\* Input alphabets of the specifications below.
SomeOids == 1..(MaxOid - 1)
TwoOids == 1..(MaxOid - 2)
LowPrices == 1..(MaxPrice - 1)

KStop == Kind(MX_ORDER_TYPE_STOP, MX_TIF_GTC, 0, 0, 0)

KStopLimit == Kind(MX_ORDER_TYPE_STOP_LIMIT, MX_TIF_GTC, 0, 0, 0)

\* Simple API: limit and market orders, cancel, modify, replace.
Next ==
    \/ AddLimit(SomeOids, LowPrices, Qtys)
    \/ AddMarket(SomeOids, Qtys)
    \/ Cancel(SomeOids)
    \/ Modify(SomeOids, Qtys)
    \/ Replace(SomeOids, LowPrices, {1})
    \/ SetTimestamp

Spec == Init /\ [][Next]_vars

\* Stop orders: stop and stop-limit submissions next to limit orders, cancel
\* and process_stops.
NextStops ==
    \/ AddLimit(TwoOids, LowPrices, {1})
    \/ AddOrder({KStop, KStopLimit}, TwoOids, LowPrices, LowPrices, {1})
    \/ Cancel(TwoOids)
    \/ ProcessStops
    \/ SetTimestamp

SpecStops == Init /\ [][NextStops]_vars

\* Slot reuse: runs one call longer, in which destroyed pool slots are handed
\* out again to limit and market orders.
NextReuse ==
    \/ AddLimit(SomeOids, LowPrices, Qtys)
    \/ AddMarket(SomeOids, {1})
    \/ Cancel(SomeOids)

InitReuse == InitCalls(ReuseCalls)

SpecReuse == InitReuse /\ [][NextReuse]_vars

\* A pending stop-limit order (id 1) that process_stops triggers into a level
\* where younger limit orders rest.
NextTrigger ==
    \/ AddOrder({KStopLimit}, {1}, {2}, {1}, {1})
    \/ AddLimit({2, 3, 4}, LowPrices, {1})
    \/ ProcessStops
    \/ SetTimestamp

InitTrigger == InitCalls(DeepCalls)

SpecTrigger == InitTrigger /\ [][NextTrigger]_vars

\* The whole API with small alphabets: every order kind of add_order next to
\* the simple calls, process_stops and process_expirations.
KIceberg == Kind(MX_ORDER_TYPE_LIMIT, MX_TIF_GTC, 0, 1, 0)

KIoc == Kind(MX_ORDER_TYPE_LIMIT, MX_TIF_IOC, 0, 0, 0)

KFok == Kind(MX_ORDER_TYPE_LIMIT, MX_TIF_FOK, 0, 0, 0)

KPostOnly == Kind(MX_ORDER_TYPE_LIMIT, MX_TIF_GTC, MX_ORDER_FLAG_POST_ONLY, 0, 0)

KGtd == Kind(MX_ORDER_TYPE_LIMIT, MX_TIF_GTD, 0, 0, 1)

NextAll ==
    \/ AddLimit(TwoOids, LowPrices, Qtys)
    \/ AddMarket(TwoOids, {1})
    \/ Cancel(TwoOids)
    \/ Modify(TwoOids, {1})
    \/ Replace(TwoOids, {1}, {1})
    \/ AddOrder({KStop, KStopLimit}, TwoOids, {1}, LowPrices, {1})
    \/ AddOrder({KIceberg}, TwoOids, LowPrices, {0}, {MaxQty})
    \/ AddOrder({KIoc, KFok, KPostOnly, KGtd}, TwoOids, LowPrices, {0}, {1})
    \/ ProcessStops
    \/ ProcessExpirations(Times)
    \/ SetTimestamp

SpecAll == Init /\ [][NextAll]_vars

\* A cancel repeated on a book whose pool slots have been handed out again:
\* one price, one quantity, six calls.
NextTwice ==
    \/ AddLimit(SomeOids, {1}, {1})
    \/ Cancel({2})

InitTwice == InitCalls(TwiceCalls)

SpecTwice == InitTwice /\ [][NextTwice]_vars

\* Submissions with invalid arguments next to valid ones: ids, prices, stop
\* prices and quantities start at 0.
KMarket == Kind(MX_ORDER_TYPE_MARKET, MX_TIF_IOC, 0, 0, 0)

NextValidate ==
    \/ AddLimit({0, 1}, {0, 1}, {0, 1})
    \/ AddMarket({0, 1}, {0, 1})
    \/ AddOrder({KStop, KStopLimit, KMarket}, {0, 1}, {0, 1}, {0, 1}, {0, 1})
    \/ Cancel({1})

SpecValidate == Init /\ [][NextValidate]_vars

\* Post-only submissions on a book whose pool slots are handed out again.
NextPostOnly ==
    \/ AddLimit(SomeOids, LowPrices, {1})
    \/ AddOrder({KPostOnly}, SomeOids, LowPrices, {0}, {1})

SpecPostOnly == InitReuse /\ [][NextPostOnly]_vars

\* Fill-or-kill limit orders against resting limit orders, four calls.
NextFok ==
    \/ AddLimit(SomeOids, LowPrices, {1})
    \/ AddOrder({KFok}, SomeOids, LowPrices, {0}, Qtys)

SpecFok == InitReuse /\ [][NextFok]_vars

\* Fill-or-kill market orders against resting limit orders.
KMarketFok == Kind(MX_ORDER_TYPE_MARKET, MX_TIF_FOK, 0, 0, 0)

NextMarketFok ==
    \/ AddLimit(SomeOids, LowPrices, Qtys)
    \/ AddOrder({KMarketFok}, SomeOids, {0}, {0}, Qtys)

SpecMarketFok == Init /\ [][NextMarketFok]_vars

\* Limit, market and immediate-or-cancel orders of quantities 1..MaxQty, long
\* enough for pool slots to be reused.
NextEvents ==
    \/ AddLimit(SomeOids, LowPrices, Qtys)
    \/ AddMarket({MaxOid - 1}, Qtys)
    \/ AddOrder({KIoc}, SomeOids, {MaxPrice - 1}, {0}, Qtys)

SpecEvents == InitReuse /\ [][NextEvents]_vars

\* Limit and stop-limit orders of quantities 1..MaxQty and their reduction.
NextModify ==
    \/ AddLimit(TwoOids, LowPrices, Qtys)
    \/ AddOrder({KStopLimit}, TwoOids, LowPrices, LowPrices, Qtys)
    \/ Modify(TwoOids, {1})

SpecModify == Init /\ [][NextModify]_vars

\* Good-till-date limit and stop orders, the expiry sweep and the stop sweep.
KStopGtd == Kind(MX_ORDER_TYPE_STOP, MX_TIF_GTD, 0, 0, 1)

NextExpire ==
    \/ AddLimit(TwoOids, LowPrices, {1})
    \/ AddOrder({KGtd}, TwoOids, LowPrices, {0}, {1})
    \/ AddOrder({KStopGtd}, TwoOids, {0}, LowPrices, {1})
    \/ Cancel(TwoOids)
    \/ ProcessStops
    \/ ProcessExpirations(Times)

SpecExpire == Init /\ [][NextExpire]_vars

\* Iceberg orders of quantity MaxQty showing 1, among plain limit orders.
NextIceberg ==
    \/ AddLimit(SomeOids, LowPrices, Qtys)
    \/ AddOrder({KIceberg}, SomeOids, LowPrices, {0}, {MaxQty})

SpecIceberg == Init /\ [][NextIceberg]_vars

\* All-or-none limit orders against resting limit orders.
KAon == Kind(MX_ORDER_TYPE_LIMIT, MX_TIF_GTC, MX_ORDER_FLAG_AON, 0, 0)

NextAon ==
    \/ AddLimit(SomeOids, LowPrices, {1})
    \/ AddOrder({KAon}, SomeOids, LowPrices, {0}, Qtys)

SpecAon == Init /\ [][NextAon]_vars

\* ------------------------------------------------------ 32-bit prices
\* The market data queries compute on Price = uint32_t.  Where the full width
\* matters a price is held as its two 16-bit halves [hi, lo].
HalfWord == 65536

Word(hi, lo) == [hi |-> hi, lo |-> lo]

Zero32 == Word(0, 0)

\* a + b in uint32_t: the carry out of the high half is dropped.
add32(a, b) ==
    LET lo == a.lo + b.lo
        hi == a.hi + b.hi + (lo \div HalfWord)
    IN  Word(hi % HalfWord, lo % HalfWord)

\* a / 2 in uint32_t.
half32(a) == Word(a.hi \div 2, ((a.hi % 2) * HalfWord + a.lo) \div 2)

Le32(a, b) == a.hi < b.hi \/ (a.hi = b.hi /\ a.lo <= b.lo)

\* OrderBook::get_mid_price on a book whose best prices are words.
get_mid_price(b) ==
    IF b.best_bid_ = Zero32 \/ b.best_ask_ = Zero32 THEN Zero32
    ELSE half32(add32(b.best_bid_, b.best_ask_))

\* mx_order_book_get_mid_price; the result is kept in status.
GetMidPrice ==
    /\ CanCall
    /\ Returns(SetStatus(Entry, get_mid_price(Entry)), Call("get_mid_price", 0, 0, 0, 0, 0))

\* Best prices over the whole range of uint32_t; 0 is an empty side.
WidePrices ==
    {Zero32, Word(0, 1), Word(0, 2), Word(0, 3), Word(0, HalfWord - 1), Word(1, 0),
     Word(HalfWord \div 2 - 1, HalfWord - 1), Word(HalfWord \div 2, 0),
     Word(HalfWord \div 2, 1), Word(HalfWord - 1, HalfWord - 2),
     Word(HalfWord - 1, HalfWord - 1)}

\* A book whose sides are empty or hold uncrossed best prices bid < ask.
InitMid ==
    /\ \E bid, ask \in WidePrices :
           /\ bid = Zero32 \/ ask = Zero32 \/ (bid # ask /\ Le32(bid, ask))
           /\ book = [NewBook(Zeroed) EXCEPT !.best_bid_ = bid, !.best_ask_ = ask]
    /\ current_timestamp_ = 0
    /\ call = Call("new", 0, 0, 0, 0, 0)
    /\ calls_left = 1
    /\ manager = NewManager

NextMid == GetMidPrice

SpecMid == InitMid /\ [][NextMid]_vars

\* The stop sweep over several pending stops: two stop orders, one limit order
\* for them to trigger on, and process_stops.
NextSweep ==
    \/ AddOrder({KStop}, TwoOids, {1}, LowPrices, {1})
    \/ AddLimit({MaxOid - 1}, LowPrices, {1})
    \/ ProcessStops

SpecSweep == InitReuse /\ [][NextSweep]_vars

\* ------------------------------------------------------------ observation
\* OrderPool::for_each_order / get_order_info: the order behind a live id.
LiveIds(b) == DOMAIN b.order_lookup_

OrderOf(b, id) == b.slots[b.order_lookup_[id]]

LiveSlots(b) == {b.order_lookup_[id] : id \in LiveIds(b)}

\* IntrusiveList iteration from `node' along next, cut after n nodes.
RECURSIVE Walk(_, _, _)
Walk(b, node, n) ==
    IF node \notin Slots \/ n = 0 THEN <<>>
    ELSE <<node>> \o Walk(b, b.slots[node].next, n - 1)

\* The nodes a loop over the level's orders_ visits (begin() .. end()).
Queue(b, side, price) == Walk(b, Levels(b, side)[price].head_, NumSlots)

Range(q) == {q[i] : i \in DOMAIN q}

Queued(b, side, price) == Range(Queue(b, side, price))

RECURSIVE Sum(_, _)
Sum(f, S) ==
    IF S = {} THEN 0
    ELSE LET x == CHOOSE x \in S : TRUE IN f[x] + Sum(f, S \ {x})

\* PriceLevel::validate: calculated_volume and calculated_visible.
calculated_volume(b, side, price) ==
    Sum([s \in Slots |-> remaining_quantity(b.slots[s])],
        Queued(b, side, price) \cap LiveSlots(b))

calculated_visible(b, side, price) ==
    Sum([s \in Slots |-> visible_quantity(b.slots[s])], Queued(b, side, price))

get_volume_at_price(b, side, price) ==
    IF price \in DOMAIN Levels(b, side) THEN Levels(b, side)[price].total_volume_ ELSE 0

\* The call of the step has returned to its caller.
Returned == book.fault = ""

IsFinal(st) == st \in {FILLED, CANCELLED, REJECTED, EXPIRED}

FinalEvents == {"ORDER_FILLED", "ORDER_CANCELLED", "ORDER_REJECTED", "ORDER_EXPIRED"}

\* The price levels (side, price) whose queue holds the slot s.
PlacesOf(b, s) ==
    {sp \in Sides \X Prices : sp[2] \in DOMAIN Levels(b, sp[1]) /\ s \in Queued(b, sp[1], sp[2])}

\* ------------------------------------------------------------ OrderManager
\* A uint64_t field of the wire protocol as its high and low 32-bit words.
Wide(hi, lo) == [hi |-> hi, lo |-> lo]

Zero64 == Wide(0, 0)

\* static_cast<uint32_t> of a uint64_t: the low word.
cast32(w) == w.lo

\* std::string::length of the symbols of the model.
length(symbol) == IF symbol = "" THEN 0 ELSE 4

NewOrderMessage(symbol, client_order_id, user_id, side, order_type, price, quantity) ==
    [symbol |-> symbol, client_order_id |-> client_order_id, user_id |-> user_id,
     side |-> side, order_type |-> order_type, price |-> price, quantity |-> quantity]

validate_new_order(msg) ==
    IF msg.symbol = "" \/ length(msg.symbol) > 15 THEN "INVALID_SYMBOL"
    ELSE IF msg.order_type = "LIMIT" /\ msg.price = Zero64 THEN "INVALID_PRICE"
    ELSE IF msg.quantity = Zero64 THEN "INVALID_QUANTITY"
    ELSE IF msg.user_id = 0 THEN "SYSTEM_ERROR"
    ELSE "NONE"

\* send_message of a message that took its sequence number from
\* generate_sequence; wall-clock timestamps are not part of the model.
send_message(m, type, id, x, y) ==
    [m EXCEPT !.sent = Append(@, [type |-> type, sequence |-> m.next_sequence_,
                                  id |-> id, x |-> x, y |-> y]),
              !.next_sequence_ = @ + 1]

send_order_ack(m, order) ==
    send_message(m, "ORDER_ACK", order.client_order_id, order.exchange_order_id, order.user_id)

send_order_reject(m, client_order_id, user_id, reason) ==
    send_message(m, "ORDER_REJECT", client_order_id, user_id, reason)

\* send_execution with generate_execution_id(); x is the fill, y the leaves.
send_execution(m, order, fill_price, fill_quantity) ==
    [send_message(m, "EXECUTION", order.client_order_id,
                  <<m.next_execution_id_, fill_price, fill_quantity>>,
                  order.remaining_quantity)
     EXCEPT !.next_execution_id_ = @ + 1]

\* OrderManager::on_trade, reached through trade_callback.
manager_on_trade(m, aggressive_order_id, passive_order_id, price, quantity) ==
    LET m1 == [m EXCEPT !.stats_.total_executions = @ + 1,
                        !.stats_.total_volume = @ + quantity]
        known == /\ aggressive_order_id \in DOMAIN m.exchange_to_client_
                 /\ passive_order_id \in DOMAIN m.exchange_to_client_
    IN  IF ~known THEN m1
        ELSE LET agg_order == m.orders_[m.exchange_to_client_[aggressive_order_id]]
                 pass_order == m.orders_[m.exchange_to_client_[passive_order_id]]
                 symbol == agg_order.symbol
                 m2 == IF symbol \in DOMAIN m1.books_
                       THEN send_message(
                                [m1 EXCEPT !.books_[symbol].last_trade_id = @ + 1],
                                "TRADE", m1.books_[symbol].last_trade_id + 1, price, quantity)
                       ELSE m1
             IN  send_execution(send_execution(m2, agg_order, price, quantity),
                                pass_order, price, quantity)

\* OrderManager::on_order_event, reached through order_callback.
on_order_event(m, order_id, event, filled, remaining) ==
    IF order_id \notin DOMAIN m.exchange_to_client_ THEN m
    ELSE LET id == m.exchange_to_client_[order_id]
         IN  IF id \notin DOMAIN m.orders_ THEN m
             ELSE IF event = "ORDER_PARTIAL"
             THEN [m EXCEPT !.orders_[id].filled_quantity = Wide(0, filled),
                            !.orders_[id].remaining_quantity = Wide(0, remaining),
                            !.orders_[id].status = "PARTIALLY_FILLED"]
             ELSE IF event = "ORDER_FILLED"
             THEN [m EXCEPT !.orders_[id].filled_quantity = Wide(0, filled),
                            !.orders_[id].remaining_quantity = Zero64,
                            !.orders_[id].status = "FILLED"]
             ELSE IF event = "ORDER_CANCELLED"
             THEN [m EXCEPT !.orders_[id].status = "CANCELLED"]
             ELSE m

\* The callbacks ev of one call of the book, delivered to the manager in
\* the order in which the book made them.
RECURSIVE callbacks(_, _)
callbacks(m, ev) ==
    IF ev = <<>> THEN m
    ELSE LET e == Head(ev)
         IN  callbacks(IF e.kind = "TRADE"
                       THEN manager_on_trade(m, e.id, e.id2, e.x, e.y)
                       ELSE on_order_event(m, e.id, e.kind, e.x, e.y),
                       Tail(ev))

\* send_quote of the best prices of b and the volumes at them.
send_quote(m, b, symbol) ==
    send_message(m, "QUOTE", symbol,
                 <<b.best_bid_, IF b.best_bid_ # 0
                                THEN get_volume_at_price(b, MX_SIDE_BUY, b.best_bid_) ELSE 0>>,
                 <<b.best_ask_, IF b.best_ask_ # 0
                                THEN get_volume_at_price(b, MX_SIDE_SELL, b.best_ask_) ELSE 0>>)

\* The order state handle_new_order creates for msg.
OrderState(msg, exchange_order_id) ==
    [client_order_id |-> msg.client_order_id,
     exchange_order_id |-> exchange_order_id,
     user_id |-> msg.user_id,
     symbol |-> msg.symbol,
     side |-> msg.side,
     order_type |-> msg.order_type,
     price |-> msg.price,
     original_quantity |-> msg.quantity,
     remaining_quantity |-> msg.quantity,
     filled_quantity |-> Zero64,
     status |-> "PENDING"]

\* "Store order state", "Send acknowledgement", "Update status to ACTIVE".
acknowledge(m, order) ==
    [send_order_ack(
         [m EXCEPT !.next_exchange_order_id_ = @ + 1,
                   !.orders_ = MapPut(@, order.client_order_id, order),
                   !.exchange_to_client_ =
                       MapPut(@, order.exchange_order_id, order.client_order_id),
                   !.user_orders_ =
                       MapPut(@, order.user_id,
                              Append(IF order.user_id \in DOMAIN m.user_orders_
                                     THEN m.user_orders_[order.user_id] ELSE <<>>,
                                     order.client_order_id))],
         order)
     EXCEPT !.orders_[order.client_order_id].status = "ACTIVE",
            !.stats_.total_orders_accepted = @ + 1]

\* "Submit to matching engine": b is the book mx_order_book_add_limit left,
\* whose callbacks have reached the manager m during the call; a failure is
\* logged and nothing else.
submitted(m, b, symbol) ==
    [m |-> IF b.fault # "" THEN [callbacks(m, b.ev) EXCEPT !.result = b.status]
           ELSE send_quote([callbacks(m, b.ev) EXCEPT !.result = b.status], b, symbol),
     b |-> b]

\* OrderManager::handle_new_order on the manager m in front of the book b:
\* the manager and the book it leaves.
handle_new_order(m, b, msg, now) ==
    LET Rejected(reason) ==
            [m |-> send_order_reject(
                       [m EXCEPT !.stats_.total_orders_received = @ + 1,
                                 !.stats_.total_orders_rejected = @ + 1],
                       msg.client_order_id, msg.user_id, reason),
             b |-> b]
    IN  IF validate_new_order(msg) # "NONE" THEN Rejected(validate_new_order(msg))
        ELSE IF msg.client_order_id \in DOMAIN m.orders_ THEN Rejected("DUPLICATE_ORDER_ID")
        ELSE IF msg.symbol \notin DOMAIN m.books_ THEN Rejected("INVALID_SYMBOL")
        ELSE submitted(
                 acknowledge([m EXCEPT !.stats_.total_orders_received = @ + 1],
                             OrderState(msg, m.next_exchange_order_id_)),
                 add_limit_order(b, m.next_exchange_order_id_,
                                 IF msg.side = "BUY" THEN MX_SIDE_BUY ELSE MX_SIDE_SELL,
                                 cast32(msg.price), cast32(msg.quantity), now),
                 msg.symbol)

\* A NEW_ORDER message handled by the server.
HandleNewOrder(C, U, S, T, P, Q) ==
    \E client_order_id \in C, user_id \in U, symbol \in S, side \in {"BUY", "SELL"},
       order_type \in T, price \in P, quantity \in Q :
        \E msg \in {NewOrderMessage(symbol, client_order_id, user_id, side, order_type,
                                    price, quantity)} :
            \E r \in {handle_new_order([manager EXCEPT !.sent = <<>>, !.result = 0], Entry,
                                       msg, current_timestamp_)} :
                /\ CanCall /\ CanAllocate
                /\ manager.next_exchange_order_id_ \in Oids
                /\ book' = r.b
                /\ manager' = r.m
                /\ call' = Call("handle_new_order", client_order_id, 0, 0, 0, msg)
                /\ calls_left' = calls_left - 1
                /\ UNCHANGED current_timestamp_

\* Prices and quantities of NEW_ORDER messages: 0, small values, and 2^32,
\* whose low word is 0.
MsgPrices == {Zero64, Wide(0, 1), Wide(0, 2), Wide(1, 0)}

MsgQtys == {Zero64, Wide(0, 1), Wide(1, 0)}

\* The server as its clients drive it: NEW_ORDER messages for the listed
\* symbol with every price, and messages with an unlisted or empty symbol, no
\* user or no quantity.
NextManager ==
    \/ HandleNewOrder(TwoOids, {1}, {"AAPL"}, {"LIMIT", "MARKET"}, MsgPrices, {Wide(0, 1)})
    \/ HandleNewOrder({1}, {0, 1}, {"", "AAPL", "MSFT"}, {"LIMIT"}, {Wide(0, 1)}, MsgQtys)

SpecManager == Init /\ [][NextManager]_vars

\* ------------------------------------------------------------------ claims
\* C1: every order that reached a final state (filled, cancelled, rejected,
\* expired) is destroyed inside the same API call: when the call has returned
\* no live order is in a final state, and no order for which the call emitted
\* a final event is still in the pool.
C1_FinalOrdersDestroyed ==
    Returned =>
        /\ \A id \in LiveIds(book) : ~IsFinal(OrderOf(book, id).state_)
        /\ \A i \in DOMAIN book.ev :
               book.ev[i].kind \in FinalEvents => ~has_order(book, book.ev[i].id)

\* C6: after every API call each level's total_volume equals the sum of the
\* remaining quantities of the live orders queued in it, and
\* get_volume_at_price returns exactly that sum, 0 where there is no level.
C6_TotalVolume ==
    Returned =>
        \A side \in Sides, price \in Prices :
            get_volume_at_price(book, side, price) =
                IF price \in DOMAIN Levels(book, side)
                THEN calculated_volume(book, side, price) ELSE 0

\* C7: after every API call each level's visible_volume equals the sum of
\* visible_quantity() over the orders queued in it.
C7_VisibleVolume ==
    Returned =>
        \A side \in Sides :
            \A price \in DOMAIN Levels(book, side) :
                Levels(book, side)[price].visible_volume_ =
                    calculated_visible(book, side, price)

\* C8: after any call, best_bid is the largest bid level key and best_ask the
\* smallest ask level key, 0 where the side has no level.
C8_BestPrices ==
    Returned =>
        /\ book.best_bid_ = IF DOMAIN book.bid_levels_ = {} THEN 0
                            ELSE MaxOf(DOMAIN book.bid_levels_)
        /\ book.best_ask_ = IF DOMAIN book.ask_levels_ = {} THEN 0
                            ELSE MinOf(DOMAIN book.ask_levels_)

\* A cancel has returned OK and left exactly one bid level and no ask level:
\* the cached best bid is that level's price and the cached best ask is 0.
C8_Witness ==
    /\ Returned /\ call.op = "cancel" /\ book.status = MX_STATUS_OK
    /\ Len(book.ev) = 1 /\ book.ev[1].kind = "ORDER_CANCELLED"
    /\ DOMAIN book.bid_levels_ = {1} /\ book.best_bid_ = 1
    /\ DOMAIN book.ask_levels_ = {} /\ book.best_ask_ = 0

\* An order at slot s rests: it is queued in exactly one level, that of its
\* own side and limit price, with remaining > 0, and is not in the stop table.
Rests(b, id) ==
    LET s == b.order_lookup_[id]
    IN  /\ PlacesOf(b, s) = {<<b.slots[s].side_, b.slots[s].price_>>}
        /\ remaining_quantity(b.slots[s]) > 0
        /\ id \notin DOMAIN b.stop_orders_

\* It is an untriggered stop of the pending-stop table, in no level.
PendingStop(b, id) ==
    LET s == b.order_lookup_[id]
    IN  /\ PlacesOf(b, s) = {}
        /\ id \in DOMAIN b.stop_orders_
        /\ b.stop_orders_[id] = s
        /\ is_stop(b.slots[s]) /\ b.slots[s].state_ = PENDING_NEW

\* C9: after any API call every live order is in exactly one place: queued in
\* exactly one level (own side, own price, remaining > 0), or an untriggered
\* stop in the pending-stop table.
C9_BookPlacement ==
    Returned => \A id \in LiveIds(book) : Rests(book, id) \/ PendingStop(book, id)

\* The step is an API call `op' that has returned.
Called(op) == calls_left' # calls_left /\ call'.op = op /\ book'.fault = ""

\* C10: cancel(oid) on any live order returns OK, emits exactly one
\* ORDER_CANCELLED carrying the order's filled count, and afterwards the order
\* is in no level queue, not in the stop table and not in the pool; its former
\* level is erased if it became empty and the cached best prices are those of
\* the remaining levels.
CancelStep ==
    LET oid == call'.oid
        s == book.order_lookup_[oid]
    IN  /\ book'.status = MX_STATUS_OK
        /\ book'.ev = <<OrderEv("ORDER_CANCELLED", oid, book.slots[s].filled_quantity_, 0)>>
        /\ PlacesOf(book', s) = {}
        /\ oid \notin DOMAIN book'.stop_orders_
        /\ ~has_order(book', oid)
        /\ \A side \in Sides : \A price \in DOMAIN Levels(book', side) :
               ~level_empty(Levels(book', side)[price])
        /\ book'.best_bid_ = IF DOMAIN book'.bid_levels_ = {} THEN 0
                             ELSE MaxOf(DOMAIN book'.bid_levels_)
        /\ book'.best_ask_ = IF DOMAIN book'.ask_levels_ = {} THEN 0
                             ELSE MinOf(DOMAIN book'.ask_levels_)

C10_Cancel ==
    [][(calls_left' # calls_left /\ call'.op = "cancel" /\ has_order(book, call'.oid))
           => (book'.fault = "" /\ CancelStep)]_vars

\* ----------------------------------------------------- claims about trades
AddOps == {"add_limit", "add_market", "add_order"}

\* The step is a submission that has returned.
Submitted == calls_left' # calls_left /\ call'.op \in AddOps /\ book'.fault = ""

IsTrade(e) == e.kind = "TRADE"

\* match_orders reports (buy id, sell id): the resting order of a trade is
\* the second id for an incoming buy and the first for an incoming sell.
PassiveId(e, side) == IF side = MX_SIDE_BUY THEN e.id2 ELSE e.id

\* Quantity traded against the resting order y by the callbacks before ev[i].
MatchedBefore(ev, i, y, side) ==
    Sum([j \in DOMAIN ev |-> ev[j].y],
        {j \in 1..(i - 1) : IsTrade(ev[j]) /\ PassiveId(ev[j], side) = y})

\* Quantity of the trades of ev in which the order id took part.
TradedQty(ev, id) ==
    Sum([j \in DOMAIN ev |-> ev[j].y],
        {j \in DOMAIN ev : IsTrade(ev[j]) /\ id \in {ev[j].id, ev[j].id2}})

\* C2: time priority: no TRADE is produced against a resting order x while an
\* order y with an earlier creation timestamp still rests on the same side at
\* the same price with remaining quantity.
TimePriorityStep ==
    LET side == call'.side
        ev == book'.ev
    IN  \A i \in DOMAIN ev :
            (IsTrade(ev[i]) /\ has_order(book, PassiveId(ev[i], side))) =>
                LET x == PassiveId(ev[i], side)
                IN  \A y \in LiveIds(book) \ {x} :
                        (/\ Rests(book, x) /\ Rests(book, y)
                         /\ OrderOf(book, y).side_ = OrderOf(book, x).side_
                         /\ OrderOf(book, y).price_ = OrderOf(book, x).price_
                         /\ OrderOf(book, y).created_time_ < OrderOf(book, x).created_time_)
                        => MatchedBefore(ev, i, y, side) >= remaining_quantity(OrderOf(book, y))

C2_TimePriority == [][Submitted => TimePriorityStep]_vars

\* C3: price priority: the trades of an incoming buy have non-decreasing
\* prices and those of an incoming sell non-increasing prices, and no opposite
\* level priced strictly better than a trade is left when the call returns.
PricePriorityStep ==
    LET side == call'.side
        T == SelectSeq(book'.ev, IsTrade)
    IN  /\ \A i, j \in DOMAIN T :
               i < j => IF side = MX_SIDE_BUY THEN T[i].x <= T[j].x ELSE T[i].x >= T[j].x
        /\ \A i \in DOMAIN T :
               IF side = MX_SIDE_BUY
               THEN \A p \in DOMAIN book'.ask_levels_ : p >= T[i].x
               ELSE \A p \in DOMAIN book'.bid_levels_ : p <= T[i].x

LimitTypeCall(c) ==
    \/ c.op = "add_limit"
    \/ c.op = "add_order" /\ c.aux.type \in {MX_ORDER_TYPE_LIMIT, MX_ORDER_TYPE_STOP_LIMIT}

ExecutionPriceStep ==
    LET side == call'.side
        ev == book'.ev
    IN  \A i \in DOMAIN ev :
            IsTrade(ev[i]) =>
                /\ has_order(book, PassiveId(ev[i], side))
                /\ ev[i].x = OrderOf(book, PassiveId(ev[i], side)).price_
                /\ LimitTypeCall(call') =>
                       IF side = MX_SIDE_BUY THEN ev[i].x <= call'.price
                       ELSE ev[i].x >= call'.price

ConservationStep ==
    /\ \A id \in LiveIds(book') :
           /\ OrderOf(book', id).filled_quantity_ <= OrderOf(book', id).total_quantity_
           /\ remaining_quantity(OrderOf(book', id)) >= 0
    /\ \A id \in LiveIds(book) \cap LiveIds(book') :
           /\ OrderOf(book', id).filled_quantity_ >= OrderOf(book, id).filled_quantity_
           /\ OrderOf(book', id).filled_quantity_ - OrderOf(book, id).filled_quantity_
                  = TradedQty(book'.ev, id)
    /\ \A id \in LiveIds(book') \ LiveIds(book) :
           OrderOf(book', id).filled_quantity_ = TradedQty(book'.ev, id)

C5_Conservation ==
    [][(calls_left' # calls_left /\ book'.fault = "") => ConservationStep]_vars

\* ------------------------------------------------ claims about failed calls
\* What a caller can observe of the book: the live orders with their fields,
\* the level queues and aggregates, the pending-stop table, the best prices.
BookState(b) ==
    [orders |-> [id \in LiveIds(b) |-> OrderOf(b, id)],
     bid_levels_ |-> b.bid_levels_,
     ask_levels_ |-> b.ask_levels_,
     stop_orders_ |-> b.stop_orders_,
     best_bid_ |-> b.best_bid_,
     best_ask_ |-> b.best_ask_]

\* The step is a cancel(oid) that directly follows a successful cancel(oid).
SecondCancel ==
    /\ calls_left' # calls_left
    /\ call'.op = "cancel" /\ call.op = "cancel" /\ call'.oid = call.oid
    /\ book.status = MX_STATUS_OK

\* C11: after a successful cancel(oid) a second cancel(oid) returns
\* ORDER_NOT_FOUND, emits no callback and leaves the book state unchanged.
C11_CancelTwice ==
    [][SecondCancel =>
          /\ book'.fault = ""
          /\ book'.status = MX_STATUS_ORDER_NOT_FOUND
          /\ book'.ev = <<>>
          /\ BookState(book') = BookState(book)]_vars

\* The step is replace(old, new, price, qty) on a live resting order `old'
\* with an unused `new'.
ReplacesResting ==
    /\ calls_left' # calls_left /\ call'.op = "replace"
    /\ has_order(book, call'.oid) /\ Rests(book, call'.oid)
    /\ call'.aux # INVALID_ORDER_ID /\ ~has_order(book, call'.aux)

\* The fresh order of a replace: a GTC limit order on the side of the old
\* one at the new price with the new quantity, resting or matched.
ReplaceStep ==
    LET old == call'.oid
        new == call'.aux
        side == OrderOf(book, old).side_
    IN  /\ book'.status = MX_STATUS_OK
        /\ ~has_order(book', old)
        /\ \/ /\ has_order(book', new)
              /\ OrderOf(book', new).side_ = side
              /\ OrderOf(book', new).price_ = call'.price
              /\ OrderOf(book', new).total_quantity_ = call'.qty
              /\ Rests(book', new)
           \/ \E i \in DOMAIN book'.ev :
                  IsTrade(book'.ev[i]) /\ new \in {book'.ev[i].id, book'.ev[i].id2}

\* C12: replace on a live resting order with a valid unused new id cancels
\* the old order, submits a fresh GTC limit order on the same side at the new
\* price and quantity, and returns the status of that submission (OK).
C12_Replace == [][ReplacesResting => (book'.fault = "" /\ ReplaceStep)]_vars

MutatingOps == {"add_limit", "add_market", "add_order", "cancel", "modify", "replace"}

\* The step is a mutating call that has returned a status other than OK.
Failed ==
    /\ calls_left' # calls_left /\ call'.op \in MutatingOps
    /\ book'.fault = "" /\ book'.status # MX_STATUS_OK

\* C13: failure atomicity: a call that returns a status other than OK leaves
\* the live orders, the level queues and aggregates, the pending-stop table
\* and the best prices as they were before the call.
C13_FailureAtomicity == [][Failed => BookState(book') = BookState(book)]_vars

\* ------------------------------------------------ claims about validation
IsLimitType(c) ==
    \/ c.op = "add_limit"
    \/ c.op = "add_order" /\ c.aux.type \in {MX_ORDER_TYPE_LIMIT, MX_ORDER_TYPE_STOP_LIMIT}

IsStopType(c) ==
    c.op = "add_order" /\ c.aux.type \in {MX_ORDER_TYPE_STOP, MX_ORDER_TYPE_STOP_LIMIT}

\* The statuses the validation rules give the submission c on the book b.
Verdicts(b, c) ==
    (IF c.oid = INVALID_ORDER_ID THEN {MX_STATUS_INVALID_PARAM} ELSE {})
    \cup (IF c.qty = 0 THEN {MX_STATUS_INVALID_QUANTITY} ELSE {})
    \cup (IF IsLimitType(c) /\ c.price = 0 THEN {MX_STATUS_INVALID_PRICE} ELSE {})
    \cup (IF IsStopType(c) /\ c.aux.stop_price = 0 THEN {MX_STATUS_INVALID_PRICE} ELSE {})
    \cup (IF has_order(b, c.oid) THEN {MX_STATUS_DUPLICATE_ORDER} ELSE {})

\* C14: a submission with id 0, quantity 0, price 0 (limit, stop-limit), stop
\* price 0 (stop, stop-limit) or a live id returns the status of a rule it
\* breaks, emits no callback, creates no order and changes no live order.
C14_Validation ==
    [][(calls_left' # calls_left /\ call'.op \in AddOps /\ Verdicts(book, call') # {})
          => /\ book'.fault = ""
             /\ book'.status \in Verdicts(book, call')
             /\ book'.ev = <<>>
             /\ BookState(book') = BookState(book)]_vars

\* A submission with a live id has returned DUPLICATE_ORDER.
C14_Witness ==
    /\ Returned /\ call.op = "add_order" /\ call.qty > 0 /\ call.price > 0
    /\ book.status = MX_STATUS_DUPLICATE_ORDER
    /\ has_order(book, call.oid) /\ book.ev = <<>>

\* ------------------------------------------- claims about order policies
\* The step is a valid add_order submission with the arguments of kind k.
SubmittedKind(k) ==
    /\ calls_left' # calls_left /\ call'.op = "add_order"
    /\ call'.aux = Submission(k, call'.aux.stop_price)
    /\ Verdicts(book, call') = {}

\* The submission c crosses the cached best price of the opposite side of b.
Crosses(b, c) ==
    IF c.side = MX_SIDE_BUY THEN b.best_ask_ > 0 /\ c.price >= b.best_ask_
    ELSE b.best_bid_ > 0 /\ c.price <= b.best_bid_

NoTrade(ev) == \A i \in DOMAIN ev : ~IsTrade(ev[i])

\* C15: a post-only order that would match immediately returns WOULD_MATCH,
\* emits exactly one ORDER_REJECTED and no TRADE and leaves the book state as
\* it was; one that would not match rests and trades with nothing.
PostOnlyStep ==
    IF Crosses(book, call')
    THEN /\ book'.status = MX_STATUS_WOULD_MATCH
         /\ Len(book'.ev) = 1
         /\ book'.ev[1].kind = "ORDER_REJECTED" /\ book'.ev[1].id = call'.oid
         /\ BookState(book') = BookState(book)
    ELSE /\ book'.status = MX_STATUS_OK
         /\ NoTrade(book'.ev)
         /\ has_order(book', call'.oid) /\ Rests(book', call'.oid)

C15_PostOnly == [][SubmittedKind(KPostOnly) => (book'.fault = "" /\ PostOnlyStep)]_vars

\* The volume the opposite side of b offers the limit submission c: the
\* volumes of the levels priced within its limit.
Acceptable(b, c) ==
    IF c.side = MX_SIDE_BUY
    THEN Sum([p \in DOMAIN b.ask_levels_ |-> get_volume_at_price(b, MX_SIDE_SELL, p)],
             {p \in DOMAIN b.ask_levels_ : p <= c.price})
    ELSE Sum([p \in DOMAIN b.bid_levels_ |-> get_volume_at_price(b, MX_SIDE_BUY, p)],
             {p \in DOMAIN b.bid_levels_ : p >= c.price})

\* A lifecycle event `kind' for order id is among the callbacks ev.
Emitted(ev, kind, id) == \E i \in DOMAIN ev : ev[i].kind = kind /\ ev[i].id = id

\* C16: a fill-or-kill limit order is rejected with CANNOT_FILL, ORDER_REJECTED
\* and no TRADE, the book state unchanged, when the acceptable volume is less
\* than its quantity; otherwise its trades sum to its quantity and it gets
\* ORDER_FILLED.  It never rests.
FokStep ==
    /\ ~has_order(book', call'.oid)
    /\ IF Acceptable(book, call') < call'.qty
       THEN /\ book'.status = MX_STATUS_CANNOT_FILL
            /\ Emitted(book'.ev, "ORDER_REJECTED", call'.oid)
            /\ NoTrade(book'.ev)
            /\ BookState(book') = BookState(book)
       ELSE /\ TradedQty(book'.ev, call'.oid) = call'.qty
            /\ Emitted(book'.ev, "ORDER_FILLED", call'.oid)

C16_FillOrKill == [][SubmittedKind(KFok) => (book'.fault = "" /\ FokStep)]_vars

\* The volume of all levels of the side opposite to the submission c.
Opposite(b, c) ==
    IF c.side = MX_SIDE_BUY
    THEN Sum([p \in DOMAIN b.ask_levels_ |-> get_volume_at_price(b, MX_SIDE_SELL, p)],
             DOMAIN b.ask_levels_)
    ELSE Sum([p \in DOMAIN b.bid_levels_ |-> get_volume_at_price(b, MX_SIDE_BUY, p)],
             DOMAIN b.bid_levels_)

\* C17: a fill-or-kill market order counts every opposite level whatever its
\* price: it is filled completely when their total volume is at least its
\* quantity and rejected with CANNOT_FILL only when the total is smaller.
MarketFokStep ==
    IF Opposite(book, call') >= call'.qty
    THEN /\ book'.status = MX_STATUS_OK
         /\ TradedQty(book'.ev, call'.oid) = call'.qty
         /\ Emitted(book'.ev, "ORDER_FILLED", call'.oid)
    ELSE book'.status = MX_STATUS_CANNOT_FILL

C17_MarketFok == [][SubmittedKind(KMarketFok) => (book'.fault = "" /\ MarketFokStep)]_vars

\* The final-disposition events (cancelled, filled) of order id among ev.
Disposals(ev, id) ==
    {i \in DOMAIN ev : ev[i].id = id /\ ev[i].kind \in {"ORDER_CANCELLED", "ORDER_FILLED"}}

\* C18: an immediate-or-cancel order never rests: the call returns OK, the
\* order is not live afterwards, and it gets exactly one ORDER_CANCELLED with
\* its filled count if quantity remains, otherwise exactly one ORDER_FILLED.
IocStep ==
    LET ev == book'.ev
        oid == call'.oid
        filled == TradedQty(ev, oid)
    IN  /\ book'.status = MX_STATUS_OK
        /\ ~has_order(book', oid)
        /\ Cardinality(Disposals(ev, oid)) = 1
        /\ \A i \in Disposals(ev, oid) :
               IF filled < call'.qty
               THEN ev[i].kind = "ORDER_CANCELLED" /\ ev[i].x = filled
               ELSE ev[i].kind = "ORDER_FILLED"

C18_ImmediateOrCancel == [][SubmittedKind(KIoc) => (book'.fault = "" /\ IocStep)]_vars

\* C19: market orders never rest: when a call has returned, no order of type
\* market (submitted as market or converted from a triggered stop) is live
\* and none is queued in a price level.
C19_MarketNeverRests ==
    Returned =>
        /\ \A id \in LiveIds(book) : ~is_market(OrderOf(book, id))
        /\ \A side \in Sides : \A price \in DOMAIN Levels(book, side) :
               \A s \in Queued(book, side, price) : ~is_market(book.slots[s])

\* The lifecycle events (all but trades) of order id among ev.
Lifecycle(ev, id) == {i \in DOMAIN ev : ev[i].id = id /\ ~IsTrade(ev[i])}

\* The step is a valid submission of a GTC or GTD limit order without flags.
SubmittedLimit ==
    \/ /\ calls_left' # calls_left /\ call'.op = "add_limit"
       /\ Verdicts(book, call') = {}
    \/ SubmittedKind(KGtd)

\* C20: a GTC/DAY/GTD limit submission emits exactly one lifecycle event for
\* its id: ORDER_ACCEPTED(filled 0) if it rests unfilled, ORDER_PARTIAL(filled,
\* remaining) if it rests after fills, ORDER_FILLED if it was filled
\* completely, in which case it is destroyed and does not rest.
DispositionStep ==
    LET ev == book'.ev
        oid == call'.oid
        filled == TradedQty(ev, oid)
    IN  /\ Cardinality(Lifecycle(ev, oid)) = 1
        /\ \A i \in Lifecycle(ev, oid) :
               IF filled = 0
               THEN /\ ev[i].kind = "ORDER_ACCEPTED" /\ ev[i].x = 0
                    /\ has_order(book', oid) /\ Rests(book', oid)
               ELSE IF filled < call'.qty
               THEN /\ ev[i].kind = "ORDER_PARTIAL"
                    /\ ev[i].x = filled /\ ev[i].y = call'.qty - filled
                    /\ has_order(book', oid) /\ Rests(book', oid)
               ELSE ev[i].kind = "ORDER_FILLED" /\ ~has_order(book', oid)

C20_LimitDisposition == [][SubmittedLimit => (book'.fault = "" /\ DispositionStep)]_vars

\* ------------------------------------------- claims about event delivery
\* The trades of order id among the callbacks ev.
TradesOf(ev, id) == {i \in DOMAIN ev : IsTrade(ev[i]) /\ id \in {ev[i].id, ev[i].id2}}

\* The ORDER_FILLED events of order id among the callbacks ev.
FillsOf(ev, id) == {i \in DOMAIN ev : ev[i].kind = "ORDER_FILLED" /\ ev[i].id = id}

\* The resting orders of b that the trades among ev fill completely.
FilledPassives(b, ev, oid) ==
    {id \in LiveIds(b) \ {oid} :
        /\ Rests(b, id)
        /\ TradesOf(ev, id) # {}
        /\ TradedQty(ev, id) = remaining_quantity(OrderOf(b, id))}

\* C21: passive fill notification: every resting order that a submission, buy
\* or sell, fills completely gets exactly one ORDER_FILLED with its id, filled
\* = its total quantity and remaining = 0 in the same call, after the last
\* TRADE it takes part in.
PassiveFillStep ==
    LET ev == book'.ev
    IN  \A id \in FilledPassives(book, ev, call'.oid) :
            /\ Cardinality(FillsOf(ev, id)) = 1
            /\ \A i \in FillsOf(ev, id) :
                   /\ ev[i].x = OrderOf(book, id).total_quantity_
                   /\ ev[i].y = 0
                   /\ \A j \in TradesOf(ev, id) : j < i

C21_PassiveFill == [][Submitted => PassiveFillStep]_vars

\* The terminal events (filled, cancelled) of order id among ev.
Terminals(ev, id) ==
    {i \in DOMAIN ev : ev[i].id = id /\ ev[i].kind \in {"ORDER_FILLED", "ORDER_CANCELLED"}}

\* C22: event ordering: within one submission every TRADE is delivered before
\* the terminal ORDER_FILLED or ORDER_CANCELLED of the incoming order, and no
\* TRADE is delivered after it.
EventOrderStep ==
    LET ev == book'.ev
    IN  \A i \in Terminals(ev, call'.oid) :
            \A j \in DOMAIN ev : IsTrade(ev[j]) => j < i

C22_EventOrder == [][Submitted => EventOrderStep]_vars

\* An immediate-or-cancel order has traded part of its quantity and the
\* call has delivered its ORDER_CANCELLED after the trade.
C22_Witness ==
    /\ Returned /\ call.op = "add_order" /\ call.aux = Submission(KIoc, 0)
    /\ \E j \in DOMAIN book.ev : IsTrade(book.ev[j])
    /\ \E i \in Terminals(book.ev, call.oid) : book.ev[i].kind = "ORDER_CANCELLED"

\* The lifecycle events among ev of orders other than the incoming order oid.
PassiveEvents(ev, oid) == {i \in DOMAIN ev : ~IsTrade(ev[i]) /\ ev[i].id # oid}

\* C23 (as stated): all TRADE callbacks of a submission are delivered first,
\* level by level, then a lifecycle event of the incoming order, and only
\* after that the ORDER_PARTIAL / ORDER_FILLED events of the passive orders:
\* no passive lifecycle event precedes the incoming order's lifecycle event or
\* a TRADE.
EventSequenceStep ==
    LET ev == book'.ev
        oid == call'.oid
    IN  /\ \A i, j \in DOMAIN ev : (i < j /\ IsTrade(ev[j])) => IsTrade(ev[i])
        /\ \A i \in PassiveEvents(ev, oid) :
               \E j \in Lifecycle(ev, oid) : j < i

EventSequenceAmendedStep ==
    LET ev == book'.ev
        oid == call'.oid
    IN  ev # <<>> =>
            /\ Len(ev) \in Lifecycle(ev, oid)
            /\ \A i \in PassiveEvents(ev, oid) :
                   /\ i < Len(ev)
                   /\ ev[i].kind \in {"ORDER_PARTIAL", "ORDER_FILLED"}
                   /\ \E j \in TradesOf(ev, ev[i].id) : j < i

RestsOn(b, id, side) == has_order(b, id) /\ Rests(b, id) /\ OrderOf(b, id).side_ = side

\* C24: (aggressive, passive) convention: in every TRADE callback the first
\* order id is that of the incoming order and the second that of the resting
\* order, for an incoming sell as for an incoming buy.
AggressivePassiveStep ==
    LET ev == book'.ev
    IN  \A i \in DOMAIN ev :
            IsTrade(ev[i]) =>
                /\ ev[i].id = call'.oid
                /\ ev[i].id2 # call'.oid /\ has_order(book, ev[i].id2)

C24_AggressivePassive == [][Submitted => AggressivePassiveStep]_vars

\* C25: (buy, sell) convention: in every TRADE callback the first order id is
\* that of the buy order of the trade and the second that of the sell order,
\* whichever of the two is the incoming order.
BuySellStep ==
    LET ev == book'.ev
    IN  \A i \in DOMAIN ev :
            IsTrade(ev[i]) =>
                IF call'.side = MX_SIDE_BUY
                THEN ev[i].id = call'.oid /\ RestsOn(book, ev[i].id2, MX_SIDE_SELL)
                ELSE ev[i].id2 = call'.oid /\ RestsOn(book, ev[i].id, MX_SIDE_BUY)

C25_BuySell == [][Submitted => BuySellStep]_vars

\* An incoming sell has traded with a resting buy: the callback names the
\* resting buy first and the incoming sell second.
C25_Witness ==
    /\ Returned /\ call.op \in AddOps /\ call.side = MX_SIDE_SELL
    /\ \E i \in DOMAIN book.ev :
           IsTrade(book.ev[i]) /\ book.ev[i].id2 = call.oid /\ book.ev[i].id # call.oid

\* --------------------------------------------------- claims about modify
\* The step is modify(oid, new_qty) on a live order.
ModifiesLive == calls_left' # calls_left /\ call'.op = "modify" /\ has_order(book, call'.oid)

\* The queues of all levels of the book b.
Queues(b) ==
    [side \in Sides |-> [price \in DOMAIN Levels(b, side) |-> Queue(b, side, price)]]

\* C26: modify(oid, new_qty) on a live order succeeds exactly when filled <
\* new_qty < total and otherwise returns INVALID_QUANTITY and changes nothing.
\* On success the total becomes new_qty, every queue keeps its order, the
\* order's level has total_volume and visible_volume equal to the per-order
\* sums, no other order changes and no trade occurs.
ModifyStep ==
    LET oid == call'.oid
        o == OrderOf(book, oid)
    IN  IF o.filled_quantity_ < call'.qty /\ call'.qty < o.total_quantity_
        THEN /\ book'.status = MX_STATUS_OK
             /\ book'.ev = <<>>
             /\ LiveIds(book') = LiveIds(book)
             /\ OrderOf(book', oid) = [o EXCEPT !.total_quantity_ = call'.qty]
             /\ \A id \in LiveIds(book) :
                    OrderOf(book, id) # o => OrderOf(book', id) = OrderOf(book, id)
             /\ Queues(book') = Queues(book)
             /\ \A sp \in PlacesOf(book', book'.order_lookup_[oid]) :
                    /\ Levels(book', sp[1])[sp[2]].total_volume_
                           = calculated_volume(book', sp[1], sp[2])
                    /\ Levels(book', sp[1])[sp[2]].visible_volume_
                           = calculated_visible(book', sp[1], sp[2])
        ELSE /\ book'.status = MX_STATUS_INVALID_QUANTITY
             /\ book'.ev = <<>>
             /\ BookState(book') = BookState(book)

C26_Modify == [][ModifiesLive => (book'.fault = "" /\ ModifyStep)]_vars

\* ------------------------------------------------ claims about stop orders
\* The trigger condition of a stop with the given side and stop price holds
\* against the best prices of b.
TriggerHolds(b, side, stop_price) ==
    IF side = MX_SIDE_BUY THEN b.best_ask_ > 0 /\ b.best_ask_ >= stop_price
    ELSE b.best_bid_ > 0 /\ b.best_bid_ <= stop_price

\* The step is a valid submission of a stop or stop-limit order whose
\* trigger condition already holds.
SubmittedTriggeredStop ==
    /\ calls_left' # calls_left /\ IsStopType(call')
    /\ Verdicts(book, call') = {}
    /\ TriggerHolds(book, call'.side, call'.aux.stop_price)

\* C27: a stop or stop-limit order submitted while its trigger condition holds
\* gets an ORDER_TRIGGERED before any TRADE and any other lifecycle event of
\* its id, is then processed as a market or limit order, and never enters the
\* pending-stop table.
ImmediateTriggerStep ==
    LET ev == book'.ev
        oid == call'.oid
    IN  /\ Emitted(ev, "ORDER_TRIGGERED", oid)
        /\ \A i \in DOMAIN ev :
               (ev[i].kind = "ORDER_TRIGGERED" /\ ev[i].id = oid) =>
                   \A j \in TradesOf(ev, oid) \cup Lifecycle(ev, oid) : i <= j
        /\ oid \notin DOMAIN book'.stop_orders_
        /\ has_order(book', oid) =>
               OrderOf(book', oid).order_type_ \in {MX_ORDER_TYPE_MARKET, MX_ORDER_TYPE_LIMIT}

C27_ImmediateTrigger ==
    [][SubmittedTriggeredStop => (book'.fault = "" /\ ImmediateTriggerStep)]_vars

\* The live stop-type orders of b that are in state pending-new.
PendingStops(b) ==
    {id \in LiveIds(b) : is_stop(OrderOf(b, id)) /\ OrderOf(b, id).state_ = PENDING_NEW}

\* C28: pending-stop invariant: when a call has returned the pending-stop
\* table holds exactly the live stop-type orders in state pending-new, each
\* under its own id and queued in no price level; it holds no id of an order
\* that was cancelled, expired, triggered or otherwise destroyed.
C28_PendingStops ==
    Returned =>
        /\ DOMAIN book.stop_orders_ = PendingStops(book)
        /\ \A id \in DOMAIN book.stop_orders_ :
               /\ has_order(book, id)
               /\ book.stop_orders_[id] = book.order_lookup_[id]
               /\ PlacesOf(book, book.stop_orders_[id]) = {}

\* The ORDER_TRIGGERED events of order id among ev.
TriggersOf(ev, id) == {i \in DOMAIN ev : ev[i].kind = "ORDER_TRIGGERED" /\ ev[i].id = id}

\* An entry of the pending-stop table of b meets its trigger condition.
SomeStopTriggers(b) ==
    \E id \in DOMAIN b.stop_orders_ :
        LET o == b.slots[b.stop_orders_[id]]
        IN  is_stop(o) /\ TriggerHolds(b, o.side_, o.stop_price_)

\* C29: stop triggering is one-shot.  A call emits at most one ORDER_TRIGGERED
\* per order, only for an order taken out of the pending-stop table by that
\* call; an id enters the table only as the new order of its own submission,
\* so a triggered order never re-enters it; and a process_stops call made
\* when no pending stop meets its trigger condition returns 0, emits no event
\* and changes no state.
OneShotStep ==
    /\ \A id \in Oids :
           /\ Cardinality(TriggersOf(book'.ev, id)) <= 1
           /\ TriggersOf(book'.ev, id) # {} =>
                  /\ id \in DOMAIN book.stop_orders_
                  /\ id \notin DOMAIN book'.stop_orders_
    /\ \A id \in DOMAIN book'.stop_orders_ \ DOMAIN book.stop_orders_ :
           /\ call'.op = "add_order" /\ call'.oid = id
           /\ ~has_order(book, id)
           /\ TriggersOf(book'.ev, id) = {}
    /\ (call'.op = "process_stops" /\ ~SomeStopTriggers(book)) =>
           /\ book'.status = 0
           /\ book'.ev = <<>>
           /\ BookState(book') = BookState(book)

ExpiredAt(b, now) == {id \in LiveIds(b) : is_expired(OrderOf(b, id), now)}

\* The ids of the orders queued at a level of b, head first.
QueueIds(b, side, price) ==
    LET q == Queue(b, side, price) IN [i \in DOMAIN q |-> b.slots[q[i]].order_id_]

\* C30: process_expirations(now) takes every live order with expire_time > 0
\* and now >= expire_time out of its price level or the pending-stop table,
\* emits exactly one ORDER_EXPIRED for it and destroys it, returns their
\* number and leaves every other order, its queue position and quantities as
\* they were; afterwards no expired id is in a level queue or the stop table.
ExpiryStep ==
    LET now == call'.aux
        E == ExpiredAt(book, now)
        ev == book'.ev
        Kept(id) == id \notin E
    IN  /\ book'.status = Cardinality(E)
        /\ Len(ev) = Cardinality(E)
        /\ \A id \in E :
               /\ \E i \in DOMAIN ev : ev[i].kind = "ORDER_EXPIRED" /\ ev[i].id = id
               /\ ~has_order(book', id)
               /\ id \notin DOMAIN book'.stop_orders_
        /\ LiveIds(book') = LiveIds(book) \ E
        /\ \A id \in LiveIds(book) \ E :
               /\ OrderOf(book', id).total_quantity_ = OrderOf(book, id).total_quantity_
               /\ OrderOf(book', id).filled_quantity_ = OrderOf(book, id).filled_quantity_
               /\ OrderOf(book', id).state_ = OrderOf(book, id).state_
        /\ \A side \in Sides : \A price \in DOMAIN Levels(book, side) :
               LET rest == SelectSeq(QueueIds(book, side, price), Kept)
               IN  IF rest = <<>> THEN price \notin DOMAIN Levels(book', side)
                   ELSE /\ price \in DOMAIN Levels(book', side)
                        /\ QueueIds(book', side, price) = rest

C30_ExpirySweep ==
    [][(calls_left' # calls_left /\ call'.op = "process_expirations")
          => (book'.fault = "" /\ ExpiryStep)]_vars

\* ------------------------------------------------- claims about icebergs
\* The resting iceberg orders of b whose visible slice the trades among ev
\* exhaust while quantity remains.
RefreshedIcebergs(b, ev) ==
    {id \in LiveIds(b) :
        /\ Rests(b, id) /\ is_iceberg(OrderOf(b, id))
        /\ visible_quantity(OrderOf(b, id)) > 0
        /\ TradedQty(ev, id) >= visible_quantity(OrderOf(b, id))
        /\ TradedQty(ev, id) < remaining_quantity(OrderOf(b, id))}

\* C31: iceberg refresh loses time priority: when a fill exhausts the visible
\* slice of a resting iceberg order that still has remaining quantity, the
\* order is moved to the tail of its level's queue and the level's
\* visible_volume includes its newly exposed slice (visible_volume and
\* total_volume equal the per-order sums).
IcebergRefreshStep ==
    \A id \in RefreshedIcebergs(book, book'.ev) :
        LET o == OrderOf(book, id)
            side == o.side_
            price == o.price_
        IN  /\ has_order(book', id) /\ Rests(book', id)
            /\ visible_quantity(OrderOf(book', id)) > 0
            /\ LET q == QueueIds(book', side, price) IN q # <<>> /\ q[Len(q)] = id
            /\ Levels(book', side)[price].visible_volume_ = calculated_visible(book', side, price)
            /\ Levels(book', side)[price].total_volume_ = calculated_volume(book', side, price)

C31_IcebergRefresh == [][Submitted => IcebergRefreshStep]_vars

\* C32: all-or-none: the trades of a submission with the AON flag sum to 0 or
\* to the order's whole quantity, never to something in between.
C32_AllOrNone ==
    [][(SubmittedKind(KAon) /\ book'.fault = "")
          => TradedQty(book'.ev, call'.oid) \in {0, call'.qty}]_vars

\* ------------------------------------------- claims about market data
\* floor((a + b) / 2) without wrapping: the carry stays in the high half.
ExactMid(a, b) ==
    LET lo == a.lo + b.lo
        hi == a.hi + b.hi + (lo \div HalfWord)
    IN  Word(hi \div 2, ((hi % 2) * HalfWord + (lo % HalfWord)) \div 2)

\* C33: mid price: with both sides non-empty the mid query returns
\* floor((best_bid + best_ask) / 2) as an unwrapped value, which lies between
\* best_bid and best_ask; it returns 0 when a side is empty.
C33_MidPrice ==
    (Returned /\ call.op = "get_mid_price") =>
        IF book.best_bid_ = Zero32 \/ book.best_ask_ = Zero32
        THEN book.status = Zero32
        ELSE /\ book.status = ExactMid(book.best_bid_, book.best_ask_)
             /\ Le32(book.best_bid_, book.status)
             /\ Le32(book.status, book.best_ask_)

\* ------------------------------------------- claims about queued orders
\* C34: every order queued in a price level is live in the pool, is not of
\* type market, has remaining quantity and is in state ACTIVE or
\* PARTIALLY_FILLED; so is a triggered stop-limit order that rests unfilled.
C34_QueuedOrders ==
    Returned =>
        \A side \in Sides : \A price \in DOMAIN Levels(book, side) :
            \A s \in Queued(book, side, price) :
                /\ s \in LiveSlots(book)
                /\ ~is_market(book.slots[s])
                /\ remaining_quantity(book.slots[s]) > 0
                /\ book.slots[s].state_ \in {ACTIVE, PARTIALLY_FILLED}

\* ------------------------------------------------ claims about the pool
\* The slots of the pool's free list, head first, cut after a full round.
FreeChain(b) == Walk(b, b.free_list_head_, NumSlots + 1)

\* The slots that the order lookup, a level queue or the stop table refer to.
Referenced(b) ==
    LiveSlots(b)
    \cup UNION {Queued(b, sp[1], sp[2]) :
                   sp \in {x \in Sides \X Prices : x[2] \in DOMAIN Levels(b, x[1])}}
    \cup {b.stop_orders_[id] : id \in DOMAIN b.stop_orders_}

\* C35: no use after destroy and no double destroy: when a call has returned
\* every slot is on the free list at most once (no order was destroyed
\* twice), no slot on the free list is referenced from the order lookup, a
\* level queue or the stop table, and every queued or pending order is live.
C35_NoUseAfterDestroy ==
    Returned =>
        LET free == FreeChain(book)
        IN  /\ \A i, j \in DOMAIN free : i # j => free[i] # free[j]
            /\ Range(free) \cap Referenced(book) = {}
            /\ Referenced(book) \subseteq LiveSlots(book)

\* The terminal events (filled, cancelled, rejected, expired) of id among ev.
FinalsOf(ev, id) == {i \in DOMAIN ev : ev[i].id = id /\ ev[i].kind \in FinalEvents}

\* The callback e names order id.
Names(e, id) == e.id = id \/ (IsTrade(e) /\ e.id2 = id)

\* C36: at most one terminal event per order: a call emits at most one of
\* ORDER_FILLED, ORDER_CANCELLED, ORDER_REJECTED, ORDER_EXPIRED for an id, no
\* later callback of the call names that id, and the order is not live when
\* the call returns, so that nothing more is emitted for it before its id is
\* submitted again.
TerminalOnceStep ==
    LET ev == book'.ev
    IN  \A id \in Oids :
            /\ Cardinality(FinalsOf(ev, id)) <= 1
            /\ \A i \in FinalsOf(ev, id) :
                   /\ \A j \in DOMAIN ev : j > i => ~Names(ev[j], id)
                   /\ ~has_order(book', id)

C36_TerminalOnce == [][(calls_left' # calls_left /\ book'.fault = "") => TerminalOnceStep]_vars

\* OrderBook::get_spread: best ask minus best bid when both sides are marked
\* non-empty.  A negative result stands for the wrapped unsigned value (the
\* subtraction underflowed).
get_spread(b) == IF b.best_bid_ = 0 \/ b.best_ask_ = 0 THEN 0 ELSE b.best_ask_ - b.best_bid_

\* Both best prices are set.
TwoSided(b) == b.best_bid_ > 0 /\ b.best_ask_ > 0

\* C37: the book is never crossed between calls: when a call has returned and
\* both best prices are set, the best bid is below the best ask, and the
\* spread query is strictly positive (it did not underflow).
C37_NeverCrossed == (Returned /\ TwoSided(book)) => (book.best_bid_ < book.best_ask_ /\ get_spread(book) > 0)

\* A call that traded and returned with both sides of the book non-empty.
C37_Witness == Returned /\ TwoSided(book) /\ ~NoTrade(book.ev)

\* The slots that are members of some price-level queue of b.
InSomeQueue(b) ==
    UNION {UNION {Queued(b, side, price) : price \in DOMAIN Levels(b, side)} : side \in Sides}

\* C38: linked-flag soundness: after a call, is_linked() of a live order is
\* true exactly when the order is a member of some price-level queue, so that
\* the assertion of PriceLevel::remove_order holds for every resting order
\* (also one alone in its level) and the assertion of add_order / push_back
\* fails for every queued order.
C38_LinkedFlag ==
    Returned => \A s \in LiveSlots(book) : is_linked(book.slots[s]) <=> s \in InSomeQueue(book)

\* What a caller can observe of a process_stops call that left the book b:
\* whether it returned, the callbacks, the count and the book.
SweepOutcome(b) == [fault |-> b.fault, ev |-> b.ev, status |-> b.status, book |-> BookState(b)]

\* The ids process_stops collects when the pending-stop table of b is
\* iterated in the order iter.
ToTrigger(b, iter) ==
    LET Trig(id) == should_trigger_stop(b, b.slots[b.stop_orders_[id]])
        ids == SelectSeq(iter, Trig)
    IN  [i \in 1..Len(ids) |-> b.slots[b.stop_orders_[ids[i]]].order_id_]

\* Every stop the sweep of b in the order iter triggers meets its trigger
\* condition in the book the sweep has produced up to that stop.
TriggeredInCondition(b, iter) ==
    LET to_trigger == ToTrigger(b, iter)
    IN  \A k \in DOMAIN to_trigger :
            LET bk == trigger_loop(b, SubSeq(to_trigger, 1, k - 1))
                id == to_trigger[k]
            IN  (bk.fault = "" /\ id \in DOMAIN bk.stop_orders_)
                    => should_trigger_stop(bk, bk.slots[bk.stop_orders_[id]])

\* C39: determinism of the stop sweep: a process_stops call that returns has
\* the outcome (stops triggered, trades and events, count, resulting book) of
\* every iteration order of the pending-stop table, and each stop it triggers
\* meets its trigger condition against the best prices at the moment it is
\* triggered.
SweepStep ==
    \A iter \in Orders(DOMAIN book.stop_orders_) :
        /\ SweepOutcome(process_stops(Entry, iter)) = SweepOutcome(book')
        /\ TriggeredInCondition(Entry, iter)

C39_SweepDeterminism == [][(calls_left' # calls_left /\ call'.op = "process_stops" /\ book'.fault = "") => SweepStep]_vars

\* --------------------------------------------- claims about the server
\* The client order ids the manager m holds as active or partially filled.
Held(m) == {id \in DOMAIN m.orders_ : m.orders_[id].status \in {"ACTIVE", "PARTIALLY_FILLED"}}

\* The last call was a NEW_ORDER that the manager acknowledged.
Acknowledged ==
    /\ call.op = "handle_new_order"
    /\ \E i \in DOMAIN manager.sent : manager.sent[i].type = "ORDER_ACK"

\* C40: the order manager agrees with the core book: a NEW_ORDER is
\* acknowledged (ORDER_ACK sent, counted as accepted, status ACTIVE) only if
\* the book accepted the submission, and every order the manager holds as
\* ACTIVE or PARTIALLY_FILLED is live in the book under its exchange order id.
C40_ManagerAgrees ==
    Returned =>
        /\ Acknowledged => manager.result = MX_STATUS_OK
        /\ \A id \in Held(manager) : has_order(book, manager.orders_[id].exchange_order_id)

====
